---- MODULE Spec2Model ----
(***************************************************************************)
(* Model of the stock-dashboard client (src/src/App.tsx and the indicator  *)
(* components).  Two families of behaviour are modelled:                   *)
(*   - the App component: login, the socket effect, the history fetches    *)
(*     and the React render / effect cycle (specification Spec, FairSpec); *)
(*   - the indicator arithmetic: EMA and RSI as written in App.tsx,        *)
(*     TechnicalIndicators.tsx and AIInsights.tsx (specification MathSpec). *)
(* JavaScript numbers are modelled as exact rationals <<n, d>> with d > 0; *)
(* NaN is <<0, 0>> and null is <<1, 0>>.                                   *)
(***************************************************************************)
EXTENDS Integers, Sequences, FiniteSets, TLC

\* ------------------------------------------------------------------------
\* Bounds of the indicator inputs
\* ------------------------------------------------------------------------
MaxLen == 5
MaxClose == 4
MaxPeriod == 3
MaxStdDev == 2
MaxFlat == 34
MaxTail == 2
MaxRows == 22
HalvingRows == 10
MaxInsightRows == 20
MaxVolume == 2
MaxPrice == 2
MaxChartRows == 32
MaxPredictions == 2
MaxSends == 3

\* ------------------------------------------------------------------------
\* Numbers
\* ------------------------------------------------------------------------
NaN == <<0, 0>>
Null == <<1, 0>>

IsNum(x) == x[2] > 0

Abs(n) == IF n < 0 THEN -n ELSE n

RECURSIVE GCD(_, _)
GCD(a, b) == IF b = 0 THEN a ELSE GCD(b, a % b)

Norm(n, d) ==
  IF d = 0 THEN NaN
  ELSE LET g == GCD(Abs(n), Abs(d))
           s == IF d < 0 THEN -1 ELSE 1
       IN <<(s * n) \div g, (s * d) \div g>>

R(n) == <<n, 1>>

\* sums over the least common denominator, products after cancelling, so that
\* intermediate values stay small
RAdd(x, y) ==
  IF IsNum(x) /\ IsNum(y)
  THEN LET g == GCD(x[2], y[2])
       IN Norm(x[1] * (y[2] \div g) + y[1] * (x[2] \div g), (x[2] \div g) * y[2])
  ELSE NaN
RSub(x, y) == IF IsNum(x) /\ IsNum(y) THEN RAdd(x, <<-y[1], y[2]>>) ELSE NaN
RMul(x, y) ==
  IF IsNum(x) /\ IsNum(y)
  THEN LET g1 == GCD(Abs(x[1]), y[2])
           g2 == GCD(Abs(y[1]), x[2])
           h1 == IF g1 = 0 THEN 1 ELSE g1
           h2 == IF g2 = 0 THEN 1 ELSE g2
       IN Norm((x[1] \div h1) * (y[1] \div h2), (x[2] \div h2) * (y[2] \div h1))
  ELSE NaN
\* the divisions of the modelled code never divide a non-zero number by zero;
\* 0 / 0 is NaN
RDiv(x, y) ==
  IF IsNum(x) /\ IsNum(y) /\ y[1] # 0
  THEN RMul(x, IF y[1] < 0 THEN <<0 - y[2], 0 - y[1]>> ELSE <<y[2], y[1]>>)
  ELSE NaN

RIsZero(x) == IsNum(x) /\ x[1] = 0
RLe(x, y) == IsNum(x) /\ IsNum(y) /\ x[1] * y[2] <= y[1] * x[2]

Min(a, b) == IF a < b THEN a ELSE b

\* JavaScript index i of an array is index i + 1 of the sequence
At(arr, i) == IF i >= 0 /\ i < Len(arr) THEN arr[i + 1] ELSE NaN

RECURSIVE SumTo(_, _)
SumTo(arr, k) == IF k = 0 THEN R(0) ELSE RAdd(arr[k], SumTo(arr, k - 1))

\* ------------------------------------------------------------------------
\* TechnicalIndicators.tsx
\* ------------------------------------------------------------------------
RECURSIVE TI_emaLoop(_, _, _, _)
TI_emaLoop(xs, p, initialEMA, ema) ==
  LET i == Len(ema)
      multiplier == RDiv(R(2), R(p + 1))
  IN IF i >= Len(xs) THEN ema
     ELSE IF i < p - 1 THEN TI_emaLoop(xs, p, initialEMA, Append(ema, NaN))
     ELSE IF i = p - 1 THEN TI_emaLoop(xs, p, initialEMA, Append(ema, initialEMA))
     ELSE TI_emaLoop(xs, p, initialEMA,
            Append(ema, RAdd(RMul(xs[i + 1], multiplier),
                             RMul(At(ema, i - 1), RSub(R(1), multiplier)))))

TI_calculateEMA(xs, p) ==
  LET m == Min(p, Len(xs))
      initialEMA == RDiv(SumTo(xs, m), R(m))
  IN TI_emaLoop(xs, p, initialEMA, <<>>)

\* gains[j] and losses[j] of the change from bar j to bar j + 1
Gains(closes) ==
  [j \in 1..(Len(closes) - 1) |->
     IF closes[j + 1] - closes[j] > 0 THEN R(closes[j + 1] - closes[j]) ELSE R(0)]
Losses(closes) ==
  [j \in 1..(Len(closes) - 1) |->
     IF closes[j + 1] - closes[j] < 0 THEN R(Abs(closes[j + 1] - closes[j])) ELSE R(0)]

TI_rsiAt(avgGains, avgLosses, p, i) ==
  IF i < p THEN NaN
  ELSE LET avgGain == At(avgGains, i - p)
           avgLoss == At(avgLosses, i - p)
       IN IF RIsZero(avgLoss) THEN R(100)
          ELSE RSub(R(100), RDiv(R(100), RAdd(R(1), RDiv(avgGain, avgLoss))))

TI_calculateRSI(xs, p) ==
  LET avgGains == TI_calculateEMA(Gains(xs), p)
      avgLosses == TI_calculateEMA(Losses(xs), p)
  IN [k \in 1..Len(xs) |-> TI_rsiAt(avgGains, avgLosses, p, k - 1)]

Nums(closes) == [j \in 1..Len(closes) |-> R(closes[j])]

\* calculateSMA
TI_calculateSMA(xs, p) ==
  [k \in 1..Len(xs) |->
     IF k - 1 < p - 1 THEN NaN
     ELSE RDiv(SumTo(SubSeq(xs, k - p + 1, k), p), R(p))]

MACD_FAST == 12
MACD_SLOW == 26
MACD_SIGNAL == 9

NaNs(n) == [k \in 1..n |-> NaN]

\* ema12.map((val, i) => isNaN(val) || isNaN(ema26[i]) ? NaN : val - ema26[i])
TI_macdLine(xs) ==
  LET ema12 == TI_calculateEMA(xs, MACD_FAST)
      ema26 == TI_calculateEMA(xs, MACD_SLOW)
  IN [k \in 1..Len(ema12) |->
        IF ~IsNum(ema12[k]) \/ ~IsNum(At(ema26, k - 1)) THEN NaN
        ELSE RSub(ema12[k], ema26[k])]

\* variant: the signal line is padded at the end
TI_calculateMACD_padEnd(xs) ==
  LET macd == TI_macdLine(xs)
      signal == TI_calculateEMA(SelectSeq(macd, IsNum), MACD_SIGNAL)
  IN [macd |-> macd, signal |-> signal \o NaNs(Len(macd) - Len(signal))]

\* calculateMACD
TI_calculateMACD(xs) ==
  LET macd == TI_macdLine(xs)
      validMacd == SelectSeq(macd, IsNum)
      signal == TI_calculateEMA(validMacd, MACD_SIGNAL)
      paddedSignal == NaNs(Len(macd) - Len(signal)) \o signal
  IN [macd |-> macd, signal |-> paddedSignal]

\* a + b * Math.sqrt(v), kept symbolic: v is rational, its root need not be
Surd(a, b, v) == <<a, b, v>>
IsSurd(x) == Len(x) = 3

\* reduce((sum, price) => sum + Math.pow(price - mean, 2), 0) over the first k
SumSqDev(slice, mean, k) ==
  SumTo([j \in 1..k |-> RMul(RSub(slice[j], mean), RSub(slice[j], mean))], k)

\* variant: the deviation is subtracted for the upper band and added for the lower
TI_bandsAt_swapped(xs, sma, p, stdDev, k) ==
  IF k - 1 < p - 1 THEN [upper |-> NaN, lower |-> NaN]
  ELSE LET slice == SubSeq(xs, k - p + 1, k)
           mean == sma[k]
           variance == RDiv(SumSqDev(slice, mean, Len(slice)), R(p))
       IN [upper |-> Surd(mean, R(-stdDev), variance),
           lower |-> Surd(mean, R(stdDev), variance)]

\* calculateBollingerBands: the loop body for index k - 1
TI_bandsAt(xs, sma, p, stdDev, k) ==
  IF k - 1 < p - 1 THEN [upper |-> NaN, lower |-> NaN]
  ELSE LET slice == SubSeq(xs, k - p + 1, k)
           mean == sma[k]
           variance == RDiv(SumSqDev(slice, mean, Len(slice)), R(p))
       IN [upper |-> Surd(mean, R(stdDev), variance),
           lower |-> Surd(mean, R(-stdDev), variance)]

TI_calculateBollingerBands(xs, p, stdDev) ==
  LET sma == TI_calculateSMA(xs, p)
  IN [upper |-> [k \in 1..Len(xs) |-> TI_bandsAt(xs, sma, p, stdDev, k).upper],
      lower |-> [k \in 1..Len(xs) |-> TI_bandsAt(xs, sma, p, stdDev, k).lower],
      middle |-> sma]

SMA_SHORT == 20
SMA_LONG == 50
BB_PERIOD == 20
BB_STDDEV == 2
TI_RSI_PERIOD == 14

\* d.close || d.price
CloseOrPrice(d) == IF d.close # 0 THEN d.close ELSE d.price

\* variant: the rows take time and price from the end of the data backwards
TI_calculateIndicators_reversed(data, previous) ==
  LET prices == [j \in 1..Len(data) |-> CloseOrPrice(data[j])]
      sma20 == TI_calculateSMA(Nums(prices), SMA_SHORT)
      sma50 == TI_calculateSMA(Nums(prices), SMA_LONG)
      ema12 == TI_calculateEMA(Nums(prices), MACD_FAST)
      ema26 == TI_calculateEMA(Nums(prices), MACD_SLOW)
      rsi == TI_calculateRSI(prices, TI_RSI_PERIOD)
      m == TI_calculateMACD(Nums(prices))
      b == TI_calculateBollingerBands(Nums(prices), BB_PERIOD, BB_STDDEV)
  IN IF Len(prices) = 0 THEN previous
     ELSE [k \in 1..Len(data) |->
             [time |-> data[Len(data) + 1 - k].time,
              price |-> CloseOrPrice(data[Len(data) + 1 - k]),
              sma20 |-> At(sma20, k - 1),
              sma50 |-> At(sma50, k - 1),
              ema12 |-> At(ema12, k - 1),
              ema26 |-> At(ema26, k - 1),
              rsi |-> At(rsi, k - 1),
              macd |-> At(m.macd, k - 1),
              signal |-> At(m.signal, k - 1),
              bollinger_upper |-> At(b.upper, k - 1),
              bollinger_lower |-> At(b.lower, k - 1),
              bollinger_middle |-> At(b.middle, k - 1)]]

\* calculateIndicators; previous is indicatorData before the call
TI_calculateIndicators(data, previous) ==
  LET prices == [j \in 1..Len(data) |-> CloseOrPrice(data[j])]
      sma20 == TI_calculateSMA(Nums(prices), SMA_SHORT)
      sma50 == TI_calculateSMA(Nums(prices), SMA_LONG)
      ema12 == TI_calculateEMA(Nums(prices), MACD_FAST)
      ema26 == TI_calculateEMA(Nums(prices), MACD_SLOW)
      rsi == TI_calculateRSI(prices, TI_RSI_PERIOD)
      m == TI_calculateMACD(Nums(prices))
      b == TI_calculateBollingerBands(Nums(prices), BB_PERIOD, BB_STDDEV)
  IN IF Len(prices) = 0 THEN previous
     ELSE [k \in 1..Len(data) |->
             [time |-> data[k].time,
              price |-> CloseOrPrice(data[k]),
              sma20 |-> At(sma20, k - 1),
              sma50 |-> At(sma50, k - 1),
              ema12 |-> At(ema12, k - 1),
              ema26 |-> At(ema26, k - 1),
              rsi |-> At(rsi, k - 1),
              macd |-> At(m.macd, k - 1),
              signal |-> At(m.signal, k - 1),
              bollinger_upper |-> At(b.upper, k - 1),
              bollinger_lower |-> At(b.lower, k - 1),
              bollinger_middle |-> At(b.middle, k - 1)]]

\* ------------------------------------------------------------------------
\* AIInsights.tsx
\* ------------------------------------------------------------------------
RECURSIVE AI_emaLoop(_, _, _, _, _)
AI_emaLoop(data, p, i, ema, emaValues) ==
  LET multiplier == RDiv(R(2), R(p + 1))
  IN IF i >= Len(data) THEN emaValues
     ELSE LET next == RAdd(RMul(data[i + 1], multiplier), RMul(ema, RSub(R(1), multiplier)))
          IN AI_emaLoop(data, p, i + 1, next, Append(emaValues, next))

\* variant: the average is seeded with the first value, not the mean of the first p
AI_calculateEMA_seedFirst(data, p) ==
  IF Len(data) < p THEN data
  ELSE AI_emaLoop(data, p, p, data[1], <<data[1]>>)

AI_calculateEMA(data, p) ==
  IF Len(data) < p THEN data
  ELSE LET ema == RDiv(SumTo(data, p), R(p))
       IN AI_emaLoop(data, p, p, ema, <<ema>>)

\* data is a sequence of rows [close |-> c]
Closes(data) == [j \in 1..Len(data) |-> data[j].close]

AI_calculateRSI(data, p) ==
  IF Len(data) < p + 1 THEN R(50)
  ELSE LET avgGain == AI_calculateEMA(Gains(Closes(data)), p)
           avgLoss == AI_calculateEMA(Losses(Closes(data)), p)
           currentAvgGain == At(avgGain, Len(avgGain) - 1)
           currentAvgLoss == At(avgLoss, Len(avgLoss) - 1)
       IN IF RIsZero(currentAvgLoss) THEN R(100)
          ELSE RSub(R(100), RDiv(R(100), RAdd(R(1), RDiv(currentAvgGain, currentAvgLoss))))

\* ------------------------------------------------------------------------
\* App.tsx: calculateRSI
\* ------------------------------------------------------------------------
\* x || 1
OrOne(x) == IF RIsZero(x) \/ ~IsNum(x) THEN R(1) ELSE x

RsiOf(rs) == RSub(R(100), RDiv(R(100), RAdd(R(1), rs)))

RECURSIVE App_rsiLoop(_, _, _, _, _, _)
App_rsiLoop(data, p, i, gains, losses, rsi) ==
  IF i >= Len(data) THEN rsi
  ELSE LET diff == data[i + 1].close - data[i].close
           up == IF diff > 0 THEN R(diff) ELSE R(0)
           down == IF diff > 0 THEN R(0) ELSE R(-diff)
       IN IF i < p
          THEN App_rsiLoop(data, p, i + 1, RAdd(gains, up), RAdd(losses, down),
                           Append(rsi, Null))
          ELSE IF i = p
          THEN LET g == RAdd(gains, up)
                   l == RAdd(losses, down)
                   avgGain == RDiv(g, R(p))
                   avgLoss == OrOne(RDiv(l, R(p)))
               IN App_rsiLoop(data, p, i + 1, g, l,
                              Append(rsi, RsiOf(RDiv(avgGain, avgLoss))))
          ELSE LET gain == IF diff > 0 THEN R(diff) ELSE R(0)
                   loss == IF diff < 0 THEN R(-diff) ELSE R(0)
                   g == RDiv(RAdd(RMul(gains, R(p - 1)), gain), R(p))
                   l == RDiv(RAdd(RMul(losses, R(p - 1)), loss), R(p))
               IN App_rsiLoop(data, p, i + 1, g, l,
                              Append(rsi, RsiOf(RDiv(g, OrOne(l)))))

App_calculateRSI(data, p) == App_rsiLoop(data, p, 1, R(0), R(0), <<>>)

\* ------------------------------------------------------------------------
\* App.tsx: the App component
\* ------------------------------------------------------------------------
VARIABLES
  isAuthenticated, selectedTicker, period, interval, currentServerUrl,
  socket, connectionStatus,   \* React state as of the last committed render
  pending,                    \* state updates enqueued since that render
  deps,                       \* the render whose effects ran last
  effectSocket,               \* newSocket captured by the pending effect cleanup
  sockets,                    \* every socket created by io(), in creation order
  token,                      \* localStorage 'token' (0: absent)
  prices, stats, customHistory, error, isLoading,
  credentials,                \* username and password fields ("": both empty)
  inflight,                   \* requests awaiting their response
  lastOutcome,                \* outcome of the most recently started fetchHistory
  logins, changes,            \* user actions taken so far
  series, per, result,        \* inputs and outputs of the indicator routines
  list, panelLoading,         \* NewsPanel / Recommendations: the list shown, isLoading
  panelInflight,              \* their requests awaiting a response
  panelOutcome, panelFetches, \* outcome of each panel's last finished fetch; fetches so far
  messages, inputMessage,     \* Chatbot: the message list and the input field
  chatLoading, chatInflight,  \* its isLoading; its requests awaiting a response
  sends                       \* chat messages accepted so far

vars == <<isAuthenticated, selectedTicker, period, interval, currentServerUrl,
          socket, connectionStatus, pending, deps, effectSocket, sockets, token,
          prices, stats, customHistory, error, isLoading, inflight, lastOutcome,
          logins, changes, credentials, series, per, result,
          list, panelLoading, panelInflight, panelOutcome, panelFetches,
          messages, inputMessage, chatLoading, chatInflight, sends>>

appVars == <<isAuthenticated, selectedTicker, period, interval, currentServerUrl,
             socket, connectionStatus, pending, deps, effectSocket, sockets, token,
             prices, stats, customHistory, error, isLoading, inflight, lastOutcome,
             logins, changes, credentials>>

mathVars == <<series, per, result>>

panelVars == <<list, panelLoading, panelInflight, panelOutcome, panelFetches>>

chatVars == <<messages, inputMessage, chatLoading, chatInflight, sends>>

\* bounds of the user's and the environment's actions
MaxLogins == 1
MaxChanges == 1

Tickers == {"AAPL", "MSFT"}
PeriodOptions == {"1d", "5d"}
IntervalOptions == {"1m", "5m"}
\* VITE_API_URL is unset: the first entry falls back to localhost
SERVER_URLS == <<"localhost", "localhost", "loopback">>
RSI_PERIOD == 14

autoInterval(pd) ==
  CASE pd = "1d" -> "1m" [] pd = "5d" -> "5m" [] pd = "1mo" -> "30m"
    [] pd = "3mo" -> "1h" [] OTHER -> "1m"

effectiveInterval(pd, iv) == IF iv = "auto" THEN autoInterval(pd) ELSE iv

\* error messages
ErrNoToken == "No authentication token"
ErrAuthFailed == "Authentication failed"
ErrRateLimit == "Rate limit exceeded. Please try again later."
ErrServer == "Server error: 500"
ErrCannotConnect == "Cannot connect to server. Please ensure the backend is running on port 5002."
ErrCannotConnectLogin == "Cannot connect to server. Please ensure the backend is running on port 5002. Try running: python backend/server.py"
ErrSocket == "Failed to connect to server. Please ensure the backend is running on port 5002."
ErrLoginFailed == "Login failed"

\* ---- React state updates ------------------------------------------------
NoUpdates == [k \in {} |-> 0]

\* the state the component was last rendered with
View ==
  [isAuthenticated |-> isAuthenticated, selectedTicker |-> selectedTicker,
   period |-> period, interval |-> interval, currentServerUrl |-> currentServerUrl,
   socket |-> socket, connectionStatus |-> connectionStatus]

\* the state the next render will have
Rendered(v, q) == [k \in DOMAIN v |-> IF k \in DOMAIN q THEN q[k] ELSE v[k]]

\* setX(x) called on top of the updates q enqueued since the render of v
\* (an update back to the rendered value leaves nothing to render)
SetOver(v, q, name, x) ==
  IF x = v[name]
  THEN [k \in DOMAIN q \ {name} |-> q[k]]
  ELSE [k \in DOMAIN q \cup {name} |-> IF k = name THEN x ELSE q[k]]

Set(q, name, x) == SetOver(View, q, name, x)

\* ---- sockets --------------------------------------------------------------
ClosedSocket == [closed |-> TRUE, connected |-> FALSE, ticker |-> "", subscribed |-> {}]

NewSocket(t) == [closed |-> FALSE, connected |-> FALSE, ticker |-> t, subscribed |-> {}]

LiveSockets == {s \in 1..Len(sockets) : ~sockets[s].closed}

\* socket.disconnect(): the socket is closed; a connected socket fires its
\* 'disconnect' handler, which calls setConnectionStatus('disconnected')
DisconnectSockets(ss, s) ==
  IF s = 0 THEN ss ELSE [ss EXCEPT ![s] = ClosedSocket]
DisconnectUpdates(v, ss, q, s) ==
  IF s # 0 /\ ss[s].connected THEN SetOver(v, q, "connectionStatus", "disconnected") ELSE q

\* variant: the two messages are emitted in the other order
EmitResubscribe_subscribeFirst(ss, s, t) ==
  IF ss[s].closed THEN ss
  ELSE [ss EXCEPT ![s].subscribed = (@ \cup {t}) \ {t}]

\* socket.emit('unsubscribe', t); socket.emit('subscribe', t)
EmitResubscribe(ss, s, t) ==
  IF ss[s].closed THEN ss
  ELSE [ss EXCEPT ![s].subscribed = (@ \ {t}) \cup {t}]

\* ---- fetchWithAuth ----------------------------------------------------------
\* what fetchWithAuth does with a response: the message it rejects with
\* ("" when it resolves) and whether it drops the authentication
Responses == {"ok", "401", "429", "500", "network"}

\* fetchWithAuth without the !response.ok check
fetchWithAuth_noOkCheck(resp) ==
  CASE resp = "401" -> [message |-> ErrAuthFailed, dropAuth |-> TRUE, dropToken |-> TRUE]
    [] resp = "429" -> [message |-> ErrRateLimit, dropAuth |-> FALSE, dropToken |-> FALSE]
    [] resp = "network" -> [message |-> ErrCannotConnect, dropAuth |-> FALSE, dropToken |-> FALSE]
    [] OTHER -> [message |-> "", dropAuth |-> FALSE, dropToken |-> FALSE]

\* fetchWithAuth treating 429 like 401
fetchWithAuth_429logsOut(resp) ==
  CASE resp = "401" -> [message |-> ErrAuthFailed, dropAuth |-> TRUE, dropToken |-> TRUE]
    [] resp = "429" -> [message |-> ErrRateLimit, dropAuth |-> TRUE, dropToken |-> TRUE]
    [] resp = "500" -> [message |-> ErrServer, dropAuth |-> FALSE, dropToken |-> FALSE]
    [] resp = "network" -> [message |-> ErrCannotConnect, dropAuth |-> FALSE, dropToken |-> FALSE]
    [] OTHER -> [message |-> "", dropAuth |-> FALSE, dropToken |-> FALSE]

\* fetchWithAuth removing the token on a 401 without setIsAuthenticated(false)
fetchWithAuth_401keepsAuth(resp) ==
  CASE resp = "401" -> [message |-> ErrAuthFailed, dropAuth |-> FALSE, dropToken |-> TRUE]
    [] resp = "429" -> [message |-> ErrRateLimit, dropAuth |-> FALSE, dropToken |-> FALSE]
    [] resp = "500" -> [message |-> ErrServer, dropAuth |-> FALSE, dropToken |-> FALSE]
    [] resp = "network" -> [message |-> ErrCannotConnect, dropAuth |-> FALSE, dropToken |-> FALSE]
    [] OTHER -> [message |-> "", dropAuth |-> FALSE, dropToken |-> FALSE]

fetchWithAuth(resp) ==
  CASE resp = "401" -> [message |-> ErrAuthFailed, dropAuth |-> TRUE, dropToken |-> TRUE]
    [] resp = "429" -> [message |-> ErrRateLimit, dropAuth |-> FALSE, dropToken |-> FALSE]
    [] resp = "500" -> [message |-> ErrServer, dropAuth |-> FALSE, dropToken |-> FALSE]
    [] resp = "network" -> [message |-> ErrCannotConnect, dropAuth |-> FALSE, dropToken |-> FALSE]
    [] OTHER -> [message |-> "", dropAuth |-> FALSE, dropToken |-> FALSE]

\* ---- fetchHistory ------------------------------------------------------------
Rows(closes) == [j \in 1..Len(closes) |-> [close |-> closes[j]]]

\* data.map((d, i) => ({ ...d, rsi: rsi[i] ?? null }))
rsiHistory(data) ==
  LET rsi == App_calculateRSI(data, RSI_PERIOD)
  IN [j \in 1..Len(data) |->
        [close |-> data[j].close, rsi |-> IF j <= Len(rsi) THEN rsi[j] ELSE Null]]

ZigZag(n) == [j \in 1..n |-> IF j % 2 = 1 THEN 3 ELSE 1 + (j % 4)]

\* the series the backend answers a history request with
HistoryPayloads == {Rows(ZigZag(RSI_PERIOD + 2))}

RequestKey(v) ==
  [url |-> v.currentServerUrl, ticker |-> v.selectedTicker, period |-> v.period,
   interval |-> effectiveInterval(v.period, v.interval)]

\* useState<any[]>([]): nothing fetched yet
NoRequest == [url |-> "", ticker |-> "", period |-> "", interval |-> ""]
NoHistory == [req |-> NoRequest, rows |-> <<>>]

HistoryInFlight == {r \in inflight : r.kind = "history"}

\* requests are numbered in the order they start
MaxOf(S) == IF S = {} THEN 0 ELSE CHOOSE m \in S : \A n \in S : n <= m
NextHistoryId == MaxOf({r.id : r \in HistoryInFlight}) + 1
IsLatest(r) == lastOutcome = "pending" /\ r.id = MaxOf({x.id : x \in HistoryInFlight})

\* ---- initial state: the component is mounted, nobody is logged in ----------
InitApp ==
  /\ isAuthenticated = FALSE
  /\ selectedTicker = "AAPL"
  /\ period = "1d"
  /\ interval = "1m"
  /\ currentServerUrl = SERVER_URLS[1]
  /\ socket = 0
  /\ connectionStatus = "disconnected"
  /\ pending = NoUpdates
  /\ deps = [isAuthenticated |-> FALSE, selectedTicker |-> "AAPL", period |-> "1d",
             interval |-> "1m", currentServerUrl |-> SERVER_URLS[1], socket |-> 0,
             connectionStatus |-> "disconnected"]
  /\ effectSocket = 0
  /\ sockets = <<>>
  /\ token = 0
  /\ prices = [t \in {} |-> 0]
  /\ stats = [t \in {} |-> 0]
  /\ customHistory = NoHistory
  /\ error = ""
  /\ isLoading = FALSE
  /\ inflight = {}
  /\ lastOutcome = "none"
  /\ logins = 0
  /\ changes = 0
  /\ credentials = ""

InitMathIdle ==
  /\ series = <<>>
  /\ per = 1
  /\ result = [op |-> "none"]

\* NewsPanel and Recommendations are not mounted
Panels == {"news", "recommendations"}

InitPanelIdle ==
  /\ list = [c \in Panels |-> 0]
  /\ panelLoading = [c \in Panels |-> FALSE]
  /\ panelInflight = {}
  /\ panelOutcome = [c \in Panels |-> "none"]
  /\ panelFetches = 0

\* Chatbot as mounted: the greeting, an empty input, nothing in flight
Greeting == [type |-> "bot", content |-> "greeting"]

InitChatIdle ==
  /\ messages = <<Greeting>>
  /\ inputMessage = ""
  /\ chatLoading = FALSE
  /\ chatInflight = {}
  /\ sends = 0

Init == InitApp /\ InitMathIdle /\ InitPanelIdle /\ InitChatIdle

\* ---- render -------------------------------------------------------------------
\* The enqueued updates become the component's state.  The effects of a render
\* run before the next render starts.
EffectsPending == deps # View

Render ==
  /\ DOMAIN pending # {}
  /\ ~EffectsPending
  /\ LET v == Rendered(View, pending)
     IN /\ isAuthenticated' = v.isAuthenticated
        /\ selectedTicker' = v.selectedTicker
        /\ period' = v.period
        /\ interval' = v.interval
        /\ currentServerUrl' = v.currentServerUrl
        /\ socket' = v.socket
        /\ connectionStatus' = v.connectionStatus
  /\ pending' = NoUpdates
  /\ UNCHANGED <<deps, effectSocket, sockets, token, prices, stats, customHistory,
                 error, isLoading, inflight, lastOutcome, logins, changes, credentials>>
  /\ UNCHANGED mathVars
  /\ UNCHANGED panelVars
  /\ UNCHANGED chatVars

\* ---- effects ------------------------------------------------------------------
\* dependency arrays: d is the previous render, v the new one
ConnectionEffectDue(d, v) ==
  <<v.isAuthenticated, v.selectedTicker, v.currentServerUrl>>
    # <<d.isAuthenticated, d.selectedTicker, d.currentServerUrl>>
TickerEffectDue(d, v) ==
  <<v.selectedTicker, v.socket, v.connectionStatus>>
    # <<d.selectedTicker, d.socket, d.connectionStatus>>
HistoryEffectDue(d, v) ==
  <<v.isAuthenticated, RequestKey(v)>> # <<d.isAuthenticated, RequestKey(d)>>

\* a connection effect that returns no cleanup
CleanupSocket_none(due, newSocket) == 0

\* return () => { newSocket.disconnect(); }: the socket the cleanup disconnects
CleanupSocket(due, newSocket) == IF due THEN newSocket ELSE 0

\* a connection effect that connects whether or not the user is authenticated
CreatesSocket_always(due, v) == due

\* if (isAuthenticated) { ... io(currentServerUrl) ... }
CreatesSocket(due, v) == due /\ v.isAuthenticated

\* if (isAuthenticated) { fetchHistory(); }
CallsFetchHistory(due, v) == due /\ v.isAuthenticated

\* The effects of the committed render whose dependencies changed run, cleanups
\* first: the connection effect (deps isAuthenticated, selectedTicker,
\* currentServerUrl), the ticker-change effect (deps selectedTicker, socket,
\* connectionStatus) and the fetchHistory effect (deps isAuthenticated,
\* fetchHistory).
RunEffects ==
  /\ EffectsPending
  /\ LET d == deps
         v == View
         e1 == ConnectionEffectDue(d, v)
         e2 == TickerEffectDue(d, v)
         e3 == HistoryEffectDue(d, v)
         \* cleanup of the connection effect
         old == CleanupSocket(e1, effectSocket)
         q1 == DisconnectUpdates(v, sockets, pending, old)
         ss1 == DisconnectSockets(sockets, old)
         \* connection effect
         create == CreatesSocket(e1, v)
         newSocket == Len(ss1) + 1
         ss2 == IF create THEN Append(ss1, NewSocket(v.selectedTicker)) ELSE ss1
         q2 == IF create
               THEN SetOver(v, SetOver(v, q1, "connectionStatus", "connecting"),
                            "socket", newSocket)
               ELSE q1
         \* ticker-change effect
         ss3 == IF e2 /\ v.socket # 0 /\ v.connectionStatus = "connected"
                THEN EmitResubscribe(ss2, v.socket, v.selectedTicker)
                ELSE ss2
         \* fetchHistory effect
         fetch == CallsFetchHistory(e3, v)
         id == NextHistoryId
     IN /\ sockets' = ss3
        /\ pending' = q2
        /\ effectSocket' = IF create THEN newSocket ELSE IF e1 THEN 0 ELSE effectSocket
        /\ IF ~fetch
           THEN UNCHANGED <<error, isLoading, inflight, lastOutcome>>
           ELSE IF token = 0
           THEN \* fetchWithAuth throws before any request is sent
                /\ error' = ErrNoToken
                /\ isLoading' = FALSE
                /\ lastOutcome' = "failed"
                /\ UNCHANGED inflight
           ELSE /\ error' = ""
                /\ isLoading' = TRUE
                /\ lastOutcome' = "pending"
                /\ inflight' = inflight \cup
                                 {[kind |-> "history", id |-> id, key |-> RequestKey(v)]}
        /\ deps' = v
  /\ UNCHANGED <<isAuthenticated, selectedTicker, period, interval, currentServerUrl,
                 socket, connectionStatus, token, prices, stats, customHistory,
                 logins, changes, credentials>>
  /\ UNCHANGED mathVars
  /\ UNCHANGED panelVars
  /\ UNCHANGED chatVars

\* ---- the dashboard's controls (rendered only when isAuthenticated) ----------------
\* A click or a change event is handled after the effects of the committed
\* render have run: the handlers below wait for them.
\* the ticker <select> offers Object.keys(prices), or AAPL while prices is empty
TickerOptions == IF DOMAIN prices = {} THEN {"AAPL"} ELSE DOMAIN prices

appFrame ==
  UNCHANGED <<isAuthenticated, selectedTicker, period, interval, currentServerUrl,
              socket, connectionStatus, deps>>

ChangeTicker(t) ==
  /\ isAuthenticated
  /\ ~EffectsPending
  /\ changes < MaxChanges
  /\ t \in TickerOptions /\ t # selectedTicker
  /\ pending' = Set(pending, "selectedTicker", t)
  /\ changes' = changes + 1
  /\ appFrame
  /\ UNCHANGED <<effectSocket, sockets, token, prices, stats, customHistory, error,
                 isLoading, inflight, lastOutcome, logins, credentials>>
  /\ UNCHANGED mathVars
  /\ UNCHANGED panelVars
  /\ UNCHANGED chatVars

ChangePeriod(pd) ==
  /\ isAuthenticated
  /\ ~EffectsPending
  /\ changes < MaxChanges
  /\ pd \in PeriodOptions /\ pd # period
  /\ pending' = Set(pending, "period", pd)
  /\ changes' = changes + 1
  /\ appFrame
  /\ UNCHANGED <<effectSocket, sockets, token, prices, stats, customHistory, error,
                 isLoading, inflight, lastOutcome, logins, credentials>>
  /\ UNCHANGED mathVars
  /\ UNCHANGED panelVars
  /\ UNCHANGED chatVars

ChangeInterval(iv) ==
  /\ isAuthenticated
  /\ ~EffectsPending
  /\ changes < MaxChanges
  /\ iv \in IntervalOptions /\ iv # interval
  /\ pending' = Set(pending, "interval", iv)
  /\ changes' = changes + 1
  /\ appFrame
  /\ UNCHANGED <<effectSocket, sockets, token, prices, stats, customHistory, error,
                 isLoading, inflight, lastOutcome, logins, credentials>>
  /\ UNCHANGED mathVars
  /\ UNCHANGED panelVars
  /\ UNCHANGED chatVars

\* variant: the logout also empties prices
handleLogout_resetsPrices ==
  /\ isAuthenticated
  /\ ~EffectsPending
  /\ token' = 0
  /\ error' = ""
  /\ LET q1 == Set(Set(pending, "isAuthenticated", FALSE), "connectionStatus", "disconnected")
     IN /\ pending' = DisconnectUpdates(View, sockets, q1, socket)
        /\ sockets' = DisconnectSockets(sockets, socket)
  /\ appFrame
  /\ UNCHANGED <<effectSocket, stats, customHistory, isLoading, inflight,
                 lastOutcome, logins, changes>>
  /\ credentials' = ""
  /\ prices' = [t \in {} |-> 0]
  /\ UNCHANGED mathVars
  /\ UNCHANGED panelVars
  /\ UNCHANGED chatVars

\* handleLogout closes over the socket of the committed render
handleLogout ==
  /\ isAuthenticated
  /\ ~EffectsPending
  /\ token' = 0
  /\ error' = ""
  /\ LET q1 == Set(Set(pending, "isAuthenticated", FALSE), "connectionStatus", "disconnected")
     IN /\ pending' = DisconnectUpdates(View, sockets, q1, socket)
        /\ sockets' = DisconnectSockets(sockets, socket)
  /\ appFrame
  /\ UNCHANGED <<effectSocket, prices, stats, customHistory, isLoading, inflight,
                 lastOutcome, logins, changes>>
  /\ credentials' = ""
  /\ UNCHANGED mathVars
  /\ UNCHANGED panelVars
  /\ UNCHANGED chatVars

\* ---- socket events ------------------------------------------------------------------
SocketConnect(s) ==
  /\ s \in LiveSockets /\ ~sockets[s].connected
  /\ sockets' = [sockets EXCEPT ![s].connected = TRUE,
                                ![s].subscribed = {sockets[s].ticker}]
  /\ pending' = Set(pending, "connectionStatus", "connected")
  /\ appFrame
  /\ UNCHANGED <<effectSocket, token, prices, stats, customHistory, error, isLoading,
                 inflight, lastOutcome, logins, changes, credentials>>
  /\ UNCHANGED mathVars
  /\ UNCHANGED panelVars
  /\ UNCHANGED chatVars

SocketConnectError(s) ==
  /\ s \in LiveSockets /\ ~sockets[s].connected
  /\ pending' = Set(pending, "connectionStatus", "disconnected")
  /\ error' = ErrSocket
  /\ appFrame
  /\ UNCHANGED <<effectSocket, sockets, token, prices, stats, customHistory, isLoading,
                 inflight, lastOutcome, logins, changes, credentials>>
  /\ UNCHANGED mathVars
  /\ UNCHANGED panelVars
  /\ UNCHANGED chatVars

\* the server or the transport drops the connection
SocketDisconnect(s) ==
  /\ s \in LiveSockets /\ sockets[s].connected
  /\ sockets' = [sockets EXCEPT ![s].connected = FALSE, ![s].subscribed = {}]
  /\ pending' = Set(pending, "connectionStatus", "disconnected")
  /\ appFrame
  /\ UNCHANGED <<effectSocket, token, prices, stats, customHistory, error, isLoading,
                 inflight, lastOutcome, logins, changes, credentials>>
  /\ UNCHANGED mathVars
  /\ UNCHANGED panelVars
  /\ UNCHANGED chatVars

\* the payloads the backend pushes
PricePayloads == {[t \in {"AAPL"} |-> 1], [t \in Tickers |-> IF t = "AAPL" THEN 2 ELSE 1]}

StatsPayloads == {[t \in {"AAPL"} |-> 1]}

\* setPrices(data): the payload replaces the record
MergePrices_replace(prevPrices, data) == data

\* setPrices(prevPrices => ({ ...prevPrices, ...data }))
MergePrices(prevPrices, data) ==
  [t \in DOMAIN prevPrices \cup DOMAIN data |->
     IF t \in DOMAIN data THEN data[t] ELSE prevPrices[t]]

PriceUpdate(s, data) ==
  /\ s \in LiveSockets /\ sockets[s].connected
  /\ prices' = MergePrices(prices, data)
  /\ appFrame
  /\ UNCHANGED <<pending, deps, effectSocket, sockets, token, stats, customHistory, error,
                 isLoading, inflight, lastOutcome, logins, changes, credentials>>
  /\ UNCHANGED mathVars
  /\ UNCHANGED panelVars
  /\ UNCHANGED chatVars

StatsUpdate(s, data) ==
  /\ s \in LiveSockets /\ sockets[s].connected
  /\ stats' = data
  /\ appFrame
  /\ UNCHANGED <<pending, deps, effectSocket, sockets, token, prices, customHistory, error,
                 isLoading, inflight, lastOutcome, logins, changes, credentials>>
  /\ UNCHANGED mathVars
  /\ UNCHANGED panelVars
  /\ UNCHANGED chatVars

\* ---- the login form (rendered only when isAuthenticated is false) --------------------
\* onChange of the username and password inputs
TypeCredentials ==
  /\ ~isAuthenticated
  /\ ~EffectsPending
  /\ credentials = ""
  /\ credentials' = "typed"
  /\ appFrame
  /\ UNCHANGED <<pending, effectSocket, sockets, token, prices, stats, customHistory, error,
                 isLoading, inflight, lastOutcome, logins, changes>>
  /\ UNCHANGED mathVars
  /\ UNCHANGED panelVars
  /\ UNCHANGED chatVars

\* ---- handleLogin --------------------------------------------------------------------
\* the login form is rendered only when isAuthenticated is false
LoginSubmit ==
  /\ ~isAuthenticated
  /\ ~EffectsPending
  /\ logins < MaxLogins
  /\ logins' = logins + 1
  /\ error' = ""
  /\ isLoading' = TRUE
  /\ inflight' = inflight \cup {[kind |-> "probe", id |-> logins + 1]}
  /\ appFrame
  /\ UNCHANGED <<pending, deps, effectSocket, sockets, token, prices, stats, customHistory,
                 lastOutcome, changes, credentials>>
  /\ UNCHANGED mathVars
  /\ UNCHANGED panelVars
  /\ UNCHANGED chatVars

\* findWorkingServer: the first URL of SERVER_URLS whose /health answers ok, or 0
RECURSIVE FirstWorking(_, _)
FirstWorking(healthy, k) ==
  IF k > Len(SERVER_URLS) THEN 0
  ELSE IF SERVER_URLS[k] \in healthy THEN k
  ELSE FirstWorking(healthy, k + 1)

\* variant: the loop does not return at the first working URL
RECURSIVE LastWorking(_, _)
LastWorking(healthy, k) ==
  IF k = 0 THEN 0
  ELSE IF SERVER_URLS[k] \in healthy THEN k
  ELSE LastWorking(healthy, k - 1)

findWorkingServer_last(healthy) == LastWorking(healthy, Len(SERVER_URLS))

findWorkingServer(healthy) == FirstWorking(healthy, 1)

LoginProbed(r, healthy) ==
  /\ r \in inflight /\ r.kind = "probe"
  /\ LET w == findWorkingServer(healthy)
     IN IF w = 0
        THEN /\ error' = ErrCannotConnect
             /\ isLoading' = FALSE
             /\ inflight' = inflight \ {r}
             /\ UNCHANGED pending
        ELSE /\ pending' = Set(pending, "currentServerUrl", SERVER_URLS[w])
             /\ inflight' = (inflight \ {r}) \cup
                              {[kind |-> "login", id |-> r.id, url |-> SERVER_URLS[w]]}
             /\ UNCHANGED <<error, isLoading>>
  /\ appFrame
  /\ UNCHANGED <<effectSocket, sockets, token, prices, stats, customHistory,
                 lastOutcome, logins, changes, credentials>>
  /\ UNCHANGED mathVars
  /\ UNCHANGED panelVars
  /\ UNCHANGED chatVars

LoginResponses == {"ok", "rejected", "network"}

\* handleLogin without the !response.ok check
handleLoginOutcome_noOkCheck(resp) ==
  IF resp = "network" THEN [message |-> ErrCannotConnectLogin, authenticate |-> FALSE]
  ELSE [message |-> "", authenticate |-> TRUE]

\* what handleLogin does with the login response: the error it reports and
\* whether it stores the token and calls setIsAuthenticated(true)
handleLoginOutcome(resp) ==
  CASE resp = "ok" -> [message |-> "", authenticate |-> TRUE]
    [] resp = "network" -> [message |-> ErrCannotConnectLogin, authenticate |-> FALSE]
    [] OTHER -> [message |-> ErrLoginFailed, authenticate |-> FALSE]

LoginResponse(r, resp) ==
  /\ r \in inflight /\ r.kind = "login"
  /\ inflight' = inflight \ {r}
  /\ isLoading' = FALSE
  /\ LET o == handleLoginOutcome(resp)
     IN /\ error' = o.message
        /\ IF o.authenticate
           THEN /\ token' = 1
                /\ pending' = Set(pending, "isAuthenticated", TRUE)
           ELSE UNCHANGED <<token, pending>>
  /\ appFrame
  /\ UNCHANGED <<effectSocket, sockets, prices, stats, customHistory, lastOutcome,
                 logins, changes, credentials>>
  /\ UNCHANGED mathVars
  /\ UNCHANGED panelVars
  /\ UNCHANGED chatVars

\* ---- fetchHistory: the response arrives ------------------------------------------------
HistoryResponse(r, resp, data) ==
  /\ r \in inflight /\ r.kind = "history"
  /\ inflight' = inflight \ {r}
  /\ isLoading' = FALSE
  /\ LET f == fetchWithAuth(resp)
     IN IF f.message = ""
        THEN /\ customHistory' = [req |-> r.key, rows |-> rsiHistory(data)]
             /\ lastOutcome' = IF IsLatest(r) THEN "ok" ELSE lastOutcome
             /\ UNCHANGED <<error, token, pending>>
        ELSE /\ error' = f.message
             /\ lastOutcome' = IF IsLatest(r) THEN "failed" ELSE lastOutcome
             /\ token' = IF f.dropToken THEN 0 ELSE token
             /\ pending' = IF f.dropAuth THEN Set(pending, "isAuthenticated", FALSE)
                           ELSE pending
             /\ UNCHANGED customHistory
  /\ appFrame
  /\ UNCHANGED <<effectSocket, sockets, prices, stats, logins, changes, credentials>>
  /\ UNCHANGED mathVars
  /\ UNCHANGED panelVars
  /\ UNCHANGED chatVars

Next ==
  \/ Render
  \/ RunEffects
  \/ \E t \in Tickers : ChangeTicker(t)
  \/ \E pd \in PeriodOptions : ChangePeriod(pd)
  \/ \E iv \in IntervalOptions : ChangeInterval(iv)
  \/ handleLogout
  \/ \E s \in 1..Len(sockets) : SocketConnect(s)
  \/ \E s \in 1..Len(sockets) : SocketConnectError(s)
  \/ \E s \in 1..Len(sockets) : SocketDisconnect(s)
  \/ \E s \in 1..Len(sockets) : \E data \in PricePayloads : PriceUpdate(s, data)
  \/ \E s \in 1..Len(sockets) : \E data \in StatsPayloads : StatsUpdate(s, data)
  \/ TypeCredentials
  \/ LoginSubmit
  \/ \E r \in inflight : \E healthy \in SUBSET {SERVER_URLS[k] : k \in 1..Len(SERVER_URLS)} :
       LoginProbed(r, healthy)
  \/ \E r \in inflight : \E resp \in LoginResponses : LoginResponse(r, resp)
  \/ \E r \in inflight : \E resp \in Responses : \E data \in HistoryPayloads :
       HistoryResponse(r, resp, data)

Spec == Init /\ [][Next]_vars

\* ------------------------------------------------------------------------
\* The indicator routines applied to bounded inputs
\* ------------------------------------------------------------------------
CloseSeries == UNION {[1..n -> 1..MaxClose] : n \in 0..MaxLen}

InitMath ==
  /\ InitApp
  /\ InitPanelIdle
  /\ InitChatIdle
  /\ series \in CloseSeries
  /\ per \in 1..MaxPeriod
  /\ result = [op |-> "none"]

\* both calculateEMA routines on the same series and period
CalcEMA ==
  /\ result.op = "none"
  /\ result' = [op |-> "EMA",
                ti |-> TI_calculateEMA(Nums(series), per),
                ai |-> AI_calculateEMA(Nums(series), per)]
  /\ UNCHANGED <<series, per>>
  /\ UNCHANGED appVars
  /\ UNCHANGED panelVars
  /\ UNCHANGED chatVars

\* the three calculateRSI routines on the same series and period
CalcRSI ==
  /\ result.op = "none"
  /\ result' = [op |-> "RSI",
                app |-> App_calculateRSI(Rows(series), per),
                ti |-> TI_calculateRSI(series, per),
                ai |-> AI_calculateRSI(Rows(series), per)]
  /\ UNCHANGED <<series, per>>
  /\ UNCHANGED appVars
  /\ UNCHANGED panelVars
  /\ UNCHANGED chatVars

\* calculateSMA on the series with the period
CalcSMA ==
  /\ result.op = "none"
  /\ result' = [op |-> "SMA", sma |-> TI_calculateSMA(Nums(series), per)]
  /\ UNCHANGED <<series, per>>
  /\ UNCHANGED appVars
  /\ UNCHANGED panelVars
  /\ UNCHANGED chatVars

\* calculateMACD on the series
CalcMACD ==
  /\ result.op = "none"
  /\ result' = [op |-> "MACD", out |-> TI_calculateMACD(Nums(series))]
  /\ UNCHANGED <<series, per>>
  /\ UNCHANGED appVars
  /\ UNCHANGED panelVars
  /\ UNCHANGED chatVars

\* calculateBollingerBands on the series with the period and a width factor
CalcBollinger ==
  /\ result.op = "none"
  /\ \E stdDev \in 0..MaxStdDev :
       result' = [op |-> "BB", stdDev |-> stdDev,
                  out |-> TI_calculateBollingerBands(Nums(series), per, stdDev)]
  /\ UNCHANGED <<series, per>>
  /\ UNCHANGED appVars
  /\ UNCHANGED panelVars
  /\ UNCHANGED chatVars

TimedRows(closes) == [j \in 1..Len(closes) |-> [time |-> j, close |-> closes[j]]]

\* the [data] effect of TechnicalIndicators on its first data: indicatorData
\* is [] before
CalcIndicators ==
  /\ result.op = "none"
  /\ result' = [op |-> "IND",
                rows |-> IF Len(series) > 0
                         THEN TI_calculateIndicators(TimedRows(series), <<>>)
                         ELSE <<>>]
  /\ UNCHANGED <<series, per>>
  /\ UNCHANGED appVars
  /\ UNCHANGED panelVars
  /\ UNCHANGED chatVars

NextMath ==
  \/ CalcEMA
  \/ CalcRSI
  \/ CalcSMA
  \/ CalcMACD
  \/ CalcBollinger
  \/ CalcIndicators

MathSpec == InitMath /\ [][NextMath]_vars

\* Series long enough for the fixed periods of calculateMACD and
\* calculateIndicators: a flat run followed by a few free bars
Flat(n, c) == [j \in 1..n |-> c]

LongSeries ==
  {Flat(n, c) \o tail : n \in 0..MaxFlat, c \in {1, MaxClose},
                        tail \in UNION {[1..t -> 1..MaxClose] : t \in 0..MaxTail}}

InitLong ==
  /\ InitApp
  /\ InitPanelIdle
  /\ InitChatIdle
  /\ series \in LongSeries
  /\ per = MaxPeriod
  /\ result = [op |-> "none"]

LongSpec == InitLong /\ [][NextMath]_vars

\* ---- a second session --------------------------------------------------------
\* A state Spec reaches: the user logged in, received prices and stats, loaded
\* the AAPL history, selected MSFT and logged out while the MSFT history request
\* was still in flight; the logout has been rendered and its effects have run.
SessionEnded ==
  /\ isAuthenticated = FALSE
  /\ selectedTicker = "MSFT"
  /\ period = "1d"
  /\ interval = "1m"
  /\ currentServerUrl = SERVER_URLS[1]
  /\ socket = 2
  /\ connectionStatus = "disconnected"
  /\ pending = NoUpdates
  /\ deps = View
  /\ effectSocket = 0
  /\ sockets = <<ClosedSocket, ClosedSocket>>
  /\ token = 0
  /\ prices = [t \in Tickers |-> IF t = "AAPL" THEN 2 ELSE 1]
  /\ stats = [t \in {"AAPL"} |-> 1]
  /\ customHistory =
       [req |-> [ticker |-> "AAPL", period |-> "1d", interval |-> "1m",
                 url |-> SERVER_URLS[1]],
        rows |-> rsiHistory(Rows(ZigZag(RSI_PERIOD + 2)))]
  /\ error = ""
  /\ isLoading = FALSE
  /\ inflight = {[kind |-> "history", id |-> 2,
                  key |-> [ticker |-> "MSFT", period |-> "1d", interval |-> "1m",
                           url |-> SERVER_URLS[1]]]}
  /\ lastOutcome = "pending"
  /\ credentials = ""

\* the program continues from there; the counters of user actions start again
InitRelog ==
  SessionEnded /\ logins = 0 /\ changes = 0 /\ InitMathIdle /\ InitPanelIdle /\ InitChatIdle

RelogSpec == InitRelog /\ [][Next]_vars

\* ---- NewsPanel and Recommendations ---------------------------------------------
MaxPanelFetches == 3

\* the lists a panel's endpoint answers with
PanelPayloads == {1, 2}

\* catch (error) { console.error(...) }: a catch block that empties the list
ListAfterFailure_cleared(previous) == 0

\* catch (error) { console.error(...) }: the list the panel shows after a
\* failed fetch
ListAfterFailure(previous) == previous

\* A state Spec reaches: the user has logged in, the login has been rendered
\* and its effects have run (the socket is connecting, the first history
\* request is in flight).
LoggedIn ==
  /\ isAuthenticated = TRUE
  /\ selectedTicker = "AAPL"
  /\ period = "1d"
  /\ interval = "1m"
  /\ currentServerUrl = SERVER_URLS[1]
  /\ socket = 0
  /\ connectionStatus = "disconnected"
  /\ pending = [k \in {"socket", "connectionStatus"} |->
                  IF k = "socket" THEN 1 ELSE "connecting"]
  /\ deps = View
  /\ effectSocket = 1
  /\ sockets = <<NewSocket("AAPL")>>
  /\ token = 1
  /\ prices = [t \in {} |-> 0]
  /\ stats = [t \in {} |-> 0]
  /\ customHistory = NoHistory
  /\ error = ""
  /\ isLoading = TRUE
  /\ inflight = {[kind |-> "history", id |-> 1, key |-> RequestKey(View)]}
  /\ lastOutcome = "pending"
  /\ credentials = ""
  /\ logins = 1
  /\ changes = 0

InitPanel == LoggedIn /\ InitMathIdle /\ InitPanelIdle /\ InitChatIdle

\* fetchNews / fetchRecommendations is called: by the effect (mount, ticker
\* change) or by the refresh button
PanelFetch(c) ==
  /\ isAuthenticated
  /\ panelFetches < MaxPanelFetches
  /\ panelFetches' = panelFetches + 1
  /\ IF token = 0
     THEN \* fetchWithAuth throws before any request is sent
          /\ list' = [list EXCEPT ![c] = ListAfterFailure(list[c])]
          /\ panelLoading' = [panelLoading EXCEPT ![c] = FALSE]
          /\ panelOutcome' = [panelOutcome EXCEPT ![c] = "failed"]
          /\ UNCHANGED panelInflight
     ELSE /\ panelLoading' = [panelLoading EXCEPT ![c] = TRUE]
          /\ panelInflight' = panelInflight \cup {[panel |-> c, id |-> panelFetches + 1]}
          /\ UNCHANGED <<list, panelOutcome>>
  /\ UNCHANGED appVars
  /\ UNCHANGED mathVars
  /\ UNCHANGED chatVars

\* the response to a panel's request arrives
PanelResponse(r, resp, data) ==
  /\ r \in panelInflight
  /\ panelInflight' = panelInflight \ {r}
  /\ panelLoading' = [panelLoading EXCEPT ![r.panel] = FALSE]
  /\ LET f == fetchWithAuth(resp)
     IN /\ list' = [list EXCEPT ![r.panel] =
                      IF f.message = "" THEN data ELSE ListAfterFailure(list[r.panel])]
        /\ panelOutcome' = [panelOutcome EXCEPT ![r.panel] =
                              IF f.message = "" THEN "ok" ELSE "failed"]
        /\ token' = IF f.dropToken THEN 0 ELSE token
        /\ pending' = IF f.dropAuth THEN Set(pending, "isAuthenticated", FALSE) ELSE pending
  /\ appFrame
  /\ UNCHANGED <<effectSocket, sockets, prices, stats, customHistory, error, isLoading,
                 inflight, lastOutcome, logins, changes, credentials, panelFetches>>
  /\ UNCHANGED mathVars
  /\ UNCHANGED chatVars

NextPanel ==
  \/ \E c \in Panels : PanelFetch(c)
  \/ \E r \in panelInflight : \E resp \in Responses : \E data \in PanelPayloads :
       PanelResponse(r, resp, data)

PanelSpec == InitPanel /\ [][NextPanel]_vars

\* ------------------------------------------------------------------------
\* RiskAnalysis (unnamed/part_002)
\* ------------------------------------------------------------------------
RAbs(x) == IF IsNum(x) THEN <<Abs(x[1]), x[2]>> ELSE NaN
RLt(x, y) == IsNum(x) /\ IsNum(y) /\ x[1] * y[2] < y[1] * x[2]

\* calculateReturns
RA_calculateReturns(data) ==
  [j \in 1..(IF Len(data) = 0 THEN 0 ELSE Len(data) - 1) |->
     RDiv(R(data[j + 1].close - data[j].close), R(data[j].close))]

TRADING_DAYS == 252

\* calculateVolatility, squared: the routine returns
\* Math.sqrt(variance * 252) * 100, the non-negative root of this value
RA_volatilitySquared(returns) ==
  IF Len(returns) < 2 THEN R(0)
  ELSE LET mean == RDiv(SumTo(returns, Len(returns)), R(Len(returns)))
           variance == RDiv(SumSqDev(returns, mean, Len(returns)), R(Len(returns) - 1))
       IN RMul(RMul(variance, R(TRADING_DAYS)), R(100 * 100))

\* volatility < x and volatility > x for a threshold x > 0; both are false
\* for NaN
VolatilityBelow(volSq, x) == RLt(volSq, R(x * x))
VolatilityAbove(volSq, x) == RLt(R(x * x), volSq)

\* [...returns].sort((a, b) => a - b): entry i goes to the position after the
\* entries that are smaller, or equal and earlier
SortAscending(xs) ==
  LET before(i) == {j \in 1..Len(xs) : RLt(xs[j], xs[i]) \/ (xs[j] = xs[i] /\ j < i)}
  IN [k \in 1..Len(xs) |-> xs[CHOOSE i \in 1..Len(xs) : Cardinality(before(i)) = k - 1]]

\* Math.floor((1 - confidence) * n), clamped to 0..n-1; confidence in percent
RA_varIndex(n, confidence) ==
  LET index == ((100 - confidence) * n) \div 100
  IN IF index < 0 THEN 0 ELSE IF index >= n THEN n - 1 ELSE index

\* variant: the loss is reported with its sign
RA_calculateVaR_signed(returns, confidence) ==
  IF Len(returns) = 0 THEN R(0)
  ELSE RMul(RSub(R(0), SortAscending(returns)[RA_varIndex(Len(returns), confidence) + 1]),
            R(100))

\* calculateVaR
RA_calculateVaR(returns, confidence) ==
  IF Len(returns) = 0 THEN R(0)
  ELSE RMul(RAbs(SortAscending(returns)[RA_varIndex(Len(returns), confidence) + 1]),
            R(100))

RISK_FREE_RATE == <<1, 50>>

\* calculateSharpeRatio: (annualizedReturn - riskFreeRate) / volatility, kept as
\* the numerator and the square of the denominator
RA_calculateSharpeRatio(returns) ==
  IF Len(returns) = 0 THEN R(0)
  ELSE LET meanReturn == RDiv(SumTo(returns, Len(returns)), R(Len(returns)))
           annualizedReturn == RMul(meanReturn, R(TRADING_DAYS))
           volSq == RDiv(RA_volatilitySquared(returns), R(100 * 100))
       IN IF RIsZero(volSq) THEN R(0)
          ELSE <<RSub(annualizedReturn, RISK_FREE_RATE), volSq>>

RECURSIVE RA_drawdownLoop(_, _, _, _)
RA_drawdownLoop(data, i, peak, maxDrawdown) ==
  IF i >= Len(data) THEN maxDrawdown
  ELSE LET close == data[i + 1].close
           newPeak == IF close > peak THEN close ELSE peak
           drawdown == RDiv(R(newPeak - close), R(newPeak))
       IN RA_drawdownLoop(data, i + 1, newPeak,
                          IF RLt(maxDrawdown, drawdown) THEN drawdown ELSE maxDrawdown)

\* variant: the peak is the first close
RA_calculateMaxDrawdown_firstPeak(data) ==
  IF Len(data) < 2 THEN R(0)
  ELSE RMul(CHOOSE m \in {RDiv(R(data[1].close - data[i].close), R(data[1].close)) :
                            i \in 1..Len(data)} :
                 \A i \in 1..Len(data) :
                   RLe(RDiv(R(data[1].close - data[i].close), R(data[1].close)), m),
            R(100))

\* calculateMaxDrawdown
RA_calculateMaxDrawdown(data) ==
  IF Len(data) < 2 THEN R(0)
  ELSE RMul(RA_drawdownLoop(data, 1, data[1].close, R(0)), R(100))

VOL_LOW == 15
VOL_HIGH == 25
BETA_LOW == <<4, 5>>
BETA_MARKET == <<1, 1>>
BETA_HIGH == <<13, 10>>

\* calculateBeta
RA_calculateBeta(returns) ==
  IF Len(returns) = 0 THEN BETA_MARKET
  ELSE LET volSq == RA_volatilitySquared(returns)
       IN IF VolatilityBelow(volSq, VOL_LOW) THEN BETA_LOW
          ELSE IF VolatilityBelow(volSq, VOL_HIGH) THEN BETA_MARKET
          ELSE BETA_HIGH

VAR_95 == 95
VAR_99 == 99

\* calculateRiskMetrics; previous is riskMetrics before the call
RA_calculateRiskMetrics(historicalData, previous) ==
  LET returns == RA_calculateReturns(historicalData)
      volSq == RA_volatilitySquared(returns)
  IN IF Len(returns) = 0 THEN previous
     ELSE [volatilitySquared |-> volSq,
           var95 |-> RA_calculateVaR(returns, VAR_95),
           var99 |-> RA_calculateVaR(returns, VAR_99),
           sharpeRatio |-> RA_calculateSharpeRatio(returns),
           maxDrawdown |-> RA_calculateMaxDrawdown(historicalData),
           beta |-> RA_calculateBeta(returns),
           riskLevel |-> IF VolatilityBelow(volSq, VOL_LOW) THEN "low"
                         ELSE IF VolatilityAbove(volSq, VOL_HIGH) THEN "high"
                         ELSE "medium"]

RECURSIVE Pow2(_)
Pow2(n) == IF n = 0 THEN 1 ELSE 2 * Pow2(n - 1)

\* close series of up to MaxRows rows: doubling, one flat day then doubling,
\* halving for HalvingRows rows and flat from there, and alternating between
\* two prices
Doubling(n) == [j \in 1..n |-> Pow2(j - 1)]
PauseThenDoubling(n) == [j \in 1..n |-> IF j = 1 THEN 1 ELSE Pow2(j - 2)]
Halving(n) == [j \in 1..n |-> IF j <= HalvingRows THEN Pow2(HalvingRows - j) ELSE 1]
Alternating(n) == [j \in 1..n |-> 1 + (j % 2)]

\* closes in cents with returns 1/42, 5/168 and 0
ThreeReturns == <<28224, 28896, 29756, 29756>>

RiskSeries ==
  CloseSeries \cup {ThreeReturns}
    \cup UNION {{Doubling(n), PauseThenDoubling(n), Halving(n), Alternating(n)} :
                  n \in 0..MaxRows}

InitRisk ==
  /\ InitApp
  /\ InitPanelIdle
  /\ InitChatIdle
  /\ series \in RiskSeries
  /\ per = 1
  /\ result = [op |-> "none"]

\* the [historicalData, currentPrice] effect of RiskAnalysis on its first
\* data: riskMetrics is null before
CalcRisk ==
  /\ result.op = "none"
  /\ result' = [op |-> "RISK",
                metrics |-> IF Len(series) > 0
                            THEN RA_calculateRiskMetrics(Rows(series), Null)
                            ELSE Null]
  /\ UNCHANGED <<series, per>>
  /\ UNCHANGED appVars
  /\ UNCHANGED panelVars
  /\ UNCHANGED chatVars

\* calculateMaxDrawdown on the series
CalcMaxDrawdown ==
  /\ result.op = "none"
  /\ result' = [op |-> "DD", maxDrawdown |-> RA_calculateMaxDrawdown(Rows(series))]
  /\ UNCHANGED <<series, per>>
  /\ UNCHANGED appVars
  /\ UNCHANGED panelVars
  /\ UNCHANGED chatVars

NextRisk == CalcRisk \/ CalcMaxDrawdown

RiskSpec == InitRisk /\ [][NextRisk]_vars

\* ------------------------------------------------------------------------
\* AIInsights: generateInsights
\* ------------------------------------------------------------------------
MOMENTUM_PERIOD == 20
PATTERN_WINDOW == 10
AI_RSI_PERIOD == 14

\* calculateVolatility takes logarithms and roots; its value for two or more
\* rows is one of these, chosen freely
VolatilityValues == {5, 20, 40}

AI_calculateVolatility(data, v) == IF Len(data) < 2 THEN R(0) ELSE R(v)

\* calculateMomentum
AI_calculateMomentum(data) ==
  IF Len(data) < MOMENTUM_PERIOD THEN R(0)
  ELSE LET currentPrice == data[Len(data)].close
           price20PeriodsAgo == data[Len(data) - MOMENTUM_PERIOD + 1].close
       IN RMul(RDiv(R(currentPrice - price20PeriodsAgo), R(price20PeriodsAgo)), R(100))

MaxIn(S) == CHOOSE m \in S : \A n \in S : n <= m
MinIn(S) == CHOOSE m \in S : \A n \in S : m <= n

Keep(cond, pattern) == IF cond THEN <<pattern>> ELSE <<>>

\* detectPatterns
AI_detectPatterns(data) ==
  IF Len(data) < PATTERN_WINDOW THEN <<>>
  ELSE LET recent == SubSeq(data, Len(data) - PATTERN_WINDOW + 1, Len(data))
           recentPrices == [j \in 1..PATTERN_WINDOW |-> R(recent[j].close)]
           volumes == [j \in 1..PATTERN_WINDOW |-> R(recent[j].volume)]
           sma5 == RDiv(SumTo(SubSeq(recentPrices, PATTERN_WINDOW - 4, PATTERN_WINDOW), 5), R(5))
           sma10 == RDiv(SumTo(recentPrices, PATTERN_WINDOW), R(10))
           currentPrice == recentPrices[PATTERN_WINDOW]
           currentVolume == volumes[PATTERN_WINDOW]
           avgVolume == RDiv(SumTo(volumes, PATTERN_WINDOW), R(PATTERN_WINDOW))
           maxPrice == R(MaxIn({recent[j].close : j \in 1..PATTERN_WINDOW}))
           minPrice == R(MinIn({recent[j].close : j \in 1..PATTERN_WINDOW}))
           priceRange == RSub(maxPrice, minPrice)
           margin == RMul(priceRange, <<1, 20>>)
       IN Keep(RLt(sma5, currentPrice) /\ RLt(sma10, sma5), "Uptrend")
          \o Keep(~(RLt(sma5, currentPrice) /\ RLt(sma10, sma5))
                  /\ RLt(currentPrice, sma5) /\ RLt(sma5, sma10), "Downtrend")
          \o Keep(RLt(RMul(avgVolume, <<3, 2>>), currentVolume), "High Volume")
          \o Keep(RLt(RSub(maxPrice, margin), currentPrice), "Near Resistance")
          \o Keep(RLt(currentPrice, RAdd(minPrice, margin)), "Near Support")
          \o Keep(RLt(RMul(sma10, <<51, 50>>), currentPrice)
                  /\ RLt(RMul(avgVolume, <<6, 5>>), currentVolume), "Potential Breakout")

\* what a rule adds: its insights and its increments of the two counters
Signal(rule, type, title, bull, bear) ==
  [ins |-> <<[rule |-> rule, type |-> type, title |-> title]>>, bull |-> bull, bear |-> bear]
NoSignal == [ins |-> <<>>, bull |-> 0, bear |-> 0]

RsiRule(rsi) ==
  IF RLt(R(70), rsi) THEN Signal("rsi", "warning", "Overbought Condition", 0, 1)
  ELSE IF RLt(rsi, R(30)) THEN Signal("rsi", "bullish", "Oversold Opportunity", 1, 0)
  ELSE IF RLt(R(50), rsi) THEN Signal("rsi", "bullish", "Positive Momentum", 1, 0)
  ELSE NoSignal

MomentumRule(mom) ==
  IF RLt(R(5), mom) THEN Signal("momentum", "bullish", "Strong Upward Momentum", 1, 0)
  ELSE IF RLt(mom, R(-5)) THEN Signal("momentum", "bearish", "Negative Momentum", 0, 1)
  ELSE NoSignal

VolatilityRule(vol) ==
  IF RLt(R(30), vol) THEN Signal("volatility", "warning", "High Volatility Alert", 0, 0)
  ELSE IF RLt(vol, R(10)) THEN Signal("volatility", "neutral", "Low Volatility", 0, 0)
  ELSE NoSignal

\* pattern.includes(word) for the patterns detectPatterns returns
Includes(pattern, word) ==
  pattern = word \/ (pattern = "Potential Breakout" /\ word = "Breakout")

\* variant: a High Volume pattern counts as a bearish signal
PatternRule_volumeBearish(pattern) ==
  IF Includes(pattern, "Uptrend") \/ Includes(pattern, "Breakout")
  THEN Signal("pattern", "bullish", pattern, 1, 0)
  ELSE IF Includes(pattern, "Downtrend") THEN Signal("pattern", "bearish", pattern, 0, 1)
  ELSE IF Includes(pattern, "High Volume") THEN Signal("pattern", "warning", pattern, 0, 1)
  ELSE Signal("pattern", "neutral", pattern, 0, 0)

\* the body of patterns.forEach
PatternRule(pattern) ==
  IF Includes(pattern, "Uptrend") \/ Includes(pattern, "Breakout")
  THEN Signal("pattern", "bullish", pattern, 1, 0)
  ELSE IF Includes(pattern, "Downtrend") THEN Signal("pattern", "bearish", pattern, 0, 1)
  ELSE IF Includes(pattern, "High Volume") THEN Signal("pattern", "warning", pattern, 0, 0)
  ELSE Signal("pattern", "neutral", pattern, 0, 0)

Plus(a, b) == [ins |-> a.ins \o b.ins, bull |-> a.bull + b.bull, bear |-> a.bear + b.bear]

RECURSIVE PatternRules(_, _)
PatternRules(patterns, k) ==
  IF k = 0 THEN NoSignal ELSE Plus(PatternRules(patterns, k - 1), PatternRule(patterns[k]))

\* predictions.present: the prop is given and has a predictions field
PredictionRule(predictions, currentPrice) ==
  IF ~predictions.present THEN NoSignal
  ELSE LET futurePrice == At(predictions.predictions, Len(predictions.predictions) - 1)
           priceChange == RMul(RDiv(RSub(futurePrice, R(currentPrice)), R(currentPrice)), R(100))
           \* a division by a currentPrice of 0 gives Infinity, -Infinity or NaN
           above == IF currentPrice = 0 THEN RLt(R(0), futurePrice) ELSE RLt(R(2), priceChange)
           below == IF currentPrice = 0 THEN RLt(futurePrice, R(0)) ELSE RLt(priceChange, R(-2))
       IN IF above
          THEN Signal("prediction", "bullish", "AI Prediction: Upward Trend", 1, 0)
          ELSE IF below
          THEN Signal("prediction", "bearish", "AI Prediction: Downward Trend", 0, 1)
          ELSE NoSignal

\* generateInsights: the values it stores with setSentiment and setInsights,
\* and its two counters
AI_generateInsights(historicalData, v, predictions, currentPrice) ==
  LET vol == AI_calculateVolatility(historicalData, v)
      mom == AI_calculateMomentum(historicalData)
      rsi == AI_calculateRSI(historicalData, AI_RSI_PERIOD)
      patterns == AI_detectPatterns(historicalData)
      total == Plus(Plus(Plus(Plus(RsiRule(rsi), MomentumRule(mom)), VolatilityRule(vol)),
                         PatternRules(patterns, Len(patterns))),
                    PredictionRule(predictions, currentPrice))
  IN [sentiment |-> IF total.bull > total.bear THEN "bullish"
                    ELSE IF total.bear > total.bull THEN "bearish"
                    ELSE "neutral",
      insights |-> total.ins,
      bullishSignals |-> total.bull,
      bearishSignals |-> total.bear]

Rising(n) == [j \in 1..n |-> j]
Falling(n) == [j \in 1..n |-> n + 1 - j]

InsightSeries ==
  UNION {{Rising(n), Falling(n), Alternating(n)} : n \in 0..MaxInsightRows}
    \cup {Flat(MaxInsightRows - MaxTail, 2) \o tail :
            tail \in UNION {[1..t -> 1..MaxClose] : t \in 0..MaxTail}}

\* rows with a volume: 1 on every row, lastVolume on the last
VolumeRows(closes, lastVolume) ==
  [j \in 1..Len(closes) |->
     [close |-> closes[j], volume |-> IF j = Len(closes) THEN lastVolume ELSE 1]]

PredictionInputs ==
  {[present |-> FALSE, predictions |-> <<>>], [present |-> TRUE, predictions |-> <<>>]}
    \cup {[present |-> TRUE, predictions |-> <<R(f)>>] : f \in 1..MaxClose}

InitInsight ==
  /\ InitApp
  /\ InitPanelIdle
  /\ InitChatIdle
  /\ series \in InsightSeries
  /\ per = 1
  /\ result = [op |-> "none"]

\* the [historicalData, currentPrice, predictions] effect of AIInsights on its
\* first data: sentiment is neutral and insights is [] before
CalcInsights ==
  /\ result.op = "none"
  /\ \E v \in VolatilityValues : \E lastVolume \in 1..MaxVolume :
     \E predictions \in PredictionInputs : \E currentPrice \in 0..MaxPrice :
       result' = [op |-> "INSIGHTS",
                  out |-> IF Len(series) > 0
                          THEN AI_generateInsights(VolumeRows(series, lastVolume), v,
                                                   predictions, currentPrice)
                          ELSE [sentiment |-> "neutral", insights |-> <<>>,
                                bullishSignals |-> 0, bearishSignals |-> 0]]
  /\ UNCHANGED <<series, per>>
  /\ UNCHANGED appVars
  /\ UNCHANGED panelVars
  /\ UNCHANGED chatVars

NextInsight == CalcInsights

InsightSpec == InitInsight /\ [][NextInsight]_vars

\* ------------------------------------------------------------------------
\* PredictionChart: prepareChartData
\* ------------------------------------------------------------------------
CHART_ROWS == 30

\* historicalData.slice(-30), taken from the front instead
LastRows_fromFront(rows) ==
  SubSeq(rows, 1, Min(CHART_ROWS, Len(rows)))

\* historicalData.slice(-30)
LastRows(rows) ==
  SubSeq(rows, Len(rows) - Min(CHART_ROWS, Len(rows)) + 1, Len(rows))

\* predictions: hasPredictions / hasDates say whether the object has a truthy
\* field of that name; an absent predictions prop has neither
PredictionPoints(predictions) ==
  [k \in 1..Len(predictions.predictions) |->
     [time |-> At(predictions.dates, k - 1), price |-> Null,
      predicted |-> predictions.predictions[k], isPrediction |-> TRUE]]

\* prepareChartData
PC_prepareChartData(historicalData, predictions) ==
  LastRows(historicalData)
    \o (IF predictions.hasPredictions /\ predictions.hasDates
        THEN PredictionPoints(predictions) ELSE <<>>)

ChartSeries == {Rising(n) : n \in 0..MaxChartRows} \cup CloseSeries

PredictedPrices == UNION {[1..n -> 1..2] : n \in 0..MaxPredictions}

ChartPredictions ==
  {[hasPredictions |-> hp, hasDates |-> hd,
    predictions |-> IF hp THEN [k \in 1..Len(q) |-> R(q[k])] ELSE <<>>,
    dates |-> IF hd THEN [k \in 1..Len(q) |-> R(100 + k)] ELSE <<>>] :
     hp \in BOOLEAN, hd \in BOOLEAN, q \in PredictedPrices}

InitChart ==
  /\ InitApp
  /\ InitPanelIdle
  /\ InitChatIdle
  /\ series \in ChartSeries
  /\ per = 1
  /\ result = [op |-> "none"]

\* the [historicalData, predictions] effect of PredictionChart on its first
\* data: chartData is [] before
CalcChart ==
  /\ result.op = "none"
  /\ \E predictions \in ChartPredictions :
       result' = [op |-> "CHART", predictions |-> predictions,
                  chartData |-> IF Len(series) > 0
                                THEN PC_prepareChartData(TimedRows(series), predictions)
                                ELSE <<>>]
  /\ UNCHANGED <<series, per>>
  /\ UNCHANGED appVars
  /\ UNCHANGED panelVars
  /\ UNCHANGED chatVars

NextChart == CalcChart

ChartSpec == InitChart /\ [][NextChart]_vars

\* ------------------------------------------------------------------------
\* PredictionChart.tsx: Chatbot
\* ------------------------------------------------------------------------
ChatInputs == {"", " ", "question", "another question"}

\* inputMessage.trim()
Trim(text) == IF text = " " THEN "" ELSE text

ErrorText == "Sorry, I encountered an error."

\* variant: a failed request adds no message
BotMessages_silentOnError(failed) ==
  IF failed THEN <<>> ELSE <<[type |-> "bot", content |-> "response"]>>

\* the message sendMessage appends when its request settles
BotMessages(failed) ==
  <<[type |-> "bot", content |-> IF failed THEN ErrorText ELSE "response"]>>

InitChat == LoggedIn /\ InitMathIdle /\ InitPanelIdle /\ InitChatIdle

chatFrame ==
  /\ UNCHANGED <<isAuthenticated, selectedTicker, period, interval, currentServerUrl,
                 socket, connectionStatus, deps, effectSocket, sockets, prices, stats,
                 customHistory, error, isLoading, inflight, lastOutcome, logins, changes,
                 credentials>>
  /\ UNCHANGED mathVars
  /\ UNCHANGED panelVars

\* onChange of the textarea, which is disabled while isLoading
ChatType(text) ==
  /\ isAuthenticated
  /\ ~chatLoading
  /\ text # inputMessage
  /\ inputMessage' = text
  /\ UNCHANGED <<messages, chatLoading, chatInflight, sends, token, pending>>
  /\ chatFrame

\* a quick question, shown while messages.length <= 1
QuickQuestion ==
  /\ isAuthenticated
  /\ Len(messages) <= 1
  /\ inputMessage # "question"
  /\ inputMessage' = "question"
  /\ UNCHANGED <<messages, chatLoading, chatInflight, sends, token, pending>>
  /\ chatFrame

\* sendMessage up to its await; without a token fetchWithAuth throws before a
\* request is sent and the catch and finally blocks run at once
sendMessage ==
  /\ isAuthenticated
  /\ sends < MaxSends
  /\ ~(Trim(inputMessage) = "" \/ chatLoading)
  /\ sends' = sends + 1
  /\ inputMessage' = ""
  /\ IF token = 0
     THEN /\ messages' = Append(messages, [type |-> "user", content |-> inputMessage])
                           \o BotMessages(TRUE)
          /\ chatLoading' = FALSE
          /\ UNCHANGED chatInflight
     ELSE /\ messages' = Append(messages, [type |-> "user", content |-> inputMessage])
          /\ chatLoading' = TRUE
          /\ chatInflight' = chatInflight \cup {sends + 1}
  /\ UNCHANGED <<token, pending>>
  /\ chatFrame

\* the response to /api/chat arrives: the rest of sendMessage
ChatResponse(r, resp) ==
  /\ r \in chatInflight
  /\ chatInflight' = chatInflight \ {r}
  /\ LET f == fetchWithAuth(resp)
     IN /\ messages' = messages \o BotMessages(f.message # "")
        /\ token' = IF f.dropToken THEN 0 ELSE token
        /\ pending' = IF f.dropAuth THEN Set(pending, "isAuthenticated", FALSE) ELSE pending
  /\ chatLoading' = FALSE
  /\ UNCHANGED <<inputMessage, sends>>
  /\ chatFrame

NextChat ==
  \/ \E text \in ChatInputs : ChatType(text)
  \/ QuickQuestion
  \/ sendMessage
  \/ \E r \in chatInflight : \E resp \in Responses : ChatResponse(r, resp)

ChatSpec == InitChat /\ [][NextChat]_vars

\* React runs every render it has scheduled and the effects of every render
FairSpec == Spec /\ WF_vars(Render) /\ WF_vars(RunEffects)

\* ========================================================================
\* Properties of the App component
\* ========================================================================

\* C1: at most one socket created by the connection effect is not yet
\* disconnected; a new socket exists only once every earlier one is closed.
C1_SingleLiveSocket == Cardinality(LiveSockets) <= 1

\* the effect re-ran: a second socket is live and the first one is closed
C1_Witness ==
  /\ Len(sockets) >= 2
  /\ sockets[1].closed
  /\ \E s \in LiveSockets : s > 1 /\ sockets[s].connected

\* the value isAuthenticated will have after the enqueued updates q
AuthAfter(q) ==
  IF "isAuthenticated" \in DOMAIN q THEN q["isAuthenticated"] ELSE isAuthenticated

LogoutRequested == isAuthenticated /\ ~AuthAfter(pending)

\* C2: a socket is created only by the effects of a render whose
\* isAuthenticated is true; once handleLogout or a 401 has set isAuthenticated
\* to false, the live socket is eventually disconnected (unless a login
\* response sets it to true again before the next render); and once the
\* effects of a render with isAuthenticated false have run no socket is live.
C2_SocketsOnlyWhileAuthenticated ==
  /\ [][Len(sockets') > Len(sockets) => isAuthenticated]_vars
  /\ []((~isAuthenticated /\ ~EffectsPending) => LiveSockets = {})
  /\ (LogoutRequested /\ LiveSockets # {}) ~> (LiveSockets = {} \/ ~LogoutRequested)
  /\ ~isAuthenticated ~> LiveSockets = {}

\* a socket was created and has been disconnected after the user was logged out
C2_Witness ==
  /\ ~isAuthenticated
  /\ pending = NoUpdates /\ ~EffectsPending
  /\ Len(sockets) >= 1
  /\ LiveSockets = {}
  /\ token = 0

SelectionOf(k) == <<k.ticker, k.period, k.interval>>

\* C3: whenever no history fetch is in flight, nothing awaits rendering and the
\* most recently started fetchHistory succeeded, customHistory holds the
\* response to the request for the selected ticker, period and interval.
C3_HistoryOfCurrentSelection ==
  (HistoryInFlight = {} /\ pending = NoUpdates /\ ~EffectsPending /\ lastOutcome = "ok")
    => SelectionOf(customHistory.req) = SelectionOf(RequestKey(View))

\* C4: a price_update gives every ticker of the payload the payload's value and
\* leaves every other ticker as it was, and no step removes a ticker from prices.
C4_PricesMerged ==
  [][/\ \A t \in DOMAIN prices : t \in DOMAIN prices'
     /\ \A s \in 1..Len(sockets) : \A data \in PricePayloads :
          PriceUpdate(s, data) =>
            /\ DOMAIN prices' = DOMAIN prices \cup DOMAIN data
            /\ \A t \in DOMAIN data : prices'[t] = data[t]
            /\ \A t \in DOMAIN prices \ DOMAIN data : prices'[t] = prices[t]]_vars

\* a payload naming only AAPL arrived after one naming both tickers
C4_Witness == DOMAIN prices = Tickers /\ prices["AAPL"] = 1 /\ prices["MSFT"] = 1

\* the effects about to run call fetchHistory, which finds no stored token
FetchWithoutToken ==
  /\ EffectsPending
  /\ CallsFetchHistory(HistoryEffectDue(deps, View), View)
  /\ token = 0

\* C5: when a fetchHistory call fails (no token, 401, 429, other status,
\* network error) customHistory is unchanged, error is a non-empty message,
\* isLoading is false and no history request is started.
C5_FailedFetchOnlyReported ==
  [][((RunEffects /\ FetchWithoutToken)
      \/ \E r \in inflight : \E resp \in Responses \ {"ok"} : \E data \in HistoryPayloads :
           HistoryResponse(r, resp, data))
     => /\ customHistory' = customHistory
        /\ error' # ""
        /\ isLoading' = FALSE
        /\ HistoryInFlight' \subseteq HistoryInFlight]_vars

\* a fetch failed after an earlier one had succeeded
C5_Witness ==
  /\ customHistory # NoHistory
  /\ lastOutcome = "failed"
  /\ error \in {ErrAuthFailed, ErrRateLimit, ErrServer, ErrCannotConnect}
  /\ ~isLoading

\* a fetchHistory call found no token: the token went between the render and its effects
NoTokenWitness ==
  /\ error = ErrNoToken
  /\ lastOutcome = "failed"
  /\ ~isLoading
  /\ HistoryInFlight = {}

\* C6: without a stored token fetchWithAuth sends no request; a 401 sets
\* isAuthenticated to false, removes the token and rejects with
\* 'Authentication failed'; a 429 rejects with the rate-limit message and
\* leaves isAuthenticated and the token as they were.
C6_AuthAndRateLimit ==
  [][/\ (RunEffects /\ FetchWithoutToken) => (inflight' = inflight /\ error' = ErrNoToken)
     /\ \A r \in inflight : \A data \in HistoryPayloads :
          /\ HistoryResponse(r, "401", data) =>
               (~AuthAfter(pending') /\ token' = 0 /\ error' = "Authentication failed")
          /\ HistoryResponse(r, "429", data) =>
               (/\ AuthAfter(pending') = AuthAfter(pending)
                /\ token' = token
                /\ error' = "Rate limit exceeded. Please try again later.")]_vars

\* a 429 arrived and the user is still authenticated with the token stored
C6_Witness ==
  /\ error = ErrRateLimit
  /\ isAuthenticated /\ AuthAfter(pending)
  /\ token # 0

\* the RSI App.calculateRSI computes for bar i (JavaScript index i - 1) from
\* the rows up to and including that bar
RsiAtBar(rows, i) ==
  LET rsi == App_calculateRSI([j \in 1..i |-> [close |-> rows[j].close]], RSI_PERIOD)
  IN IF Len(rsi) = 0 THEN Null ELSE rsi[Len(rsi)]

\* C10: after a successful fetchHistory every row's rsi is null or the RSI of
\* the rows up to that row, and the last row of a series of more than
\* RSI_PERIOD rows has a non-null rsi.
C10_RsiAlignedWithRows ==
  LET rows == customHistory.rows
  IN /\ \A i \in 1..Len(rows) : rows[i].rsi = Null \/ rows[i].rsi = RsiAtBar(rows, i)
     /\ Len(rows) > RSI_PERIOD => rows[Len(rows)].rsi # Null

\* ========================================================================
\* Properties of the indicator routines
\* ========================================================================
Defined(values) == SelectSeq(values, IsNum)

\* C7 as stated: for every series and period, series shorter than the period
\* included, the non-NaN entries of TechnicalIndicators.calculateEMA are, in
\* order, the values AIInsights.calculateEMA returns.
C7_EmaRoutinesAgree ==
  result.op = "EMA" => Defined(result.ti) = result.ai

\* C7: for every series that is empty or has at least period entries, the
\* non-NaN entries of TechnicalIndicators.calculateEMA are, in order, the
\* values AIInsights.calculateEMA returns.
C7_EmaRoutinesAgreeFromPeriod ==
  (result.op = "EMA" /\ (Len(series) = 0 \/ Len(series) >= per))
    => Defined(result.ti) = result.ai

\* both routines smoothed a varying series two steps past the seed
C7_Witness ==
  /\ result.op = "EMA"
  /\ per >= 2
  /\ Len(series) >= per + 2
  /\ \E j \in 1..(Len(series) - 1) : series[j] # series[j + 1]
  /\ Len(result.ai) >= 3
  /\ Defined(result.ti) = result.ai

StrictlyIncreasing(closes) == \A j \in 1..(Len(closes) - 1) : closes[j] < closes[j + 1]

\* the value of the most recent bar a routine produced a value for
LastValue(values) ==
  LET d == SelectSeq(values, IsNum) IN IF Len(d) = 0 THEN NaN ELSE d[Len(d)]

\* C8: on a strictly increasing series longer than the period, each of the
\* three calculateRSI routines reports 100 for the most recent bar it produces
\* a value for.
C8_RsiRoutinesAgreeWithoutLoss ==
  (result.op = "RSI" /\ StrictlyIncreasing(series) /\ Len(series) > per)
    => /\ LastValue(result.app) = R(100)
       /\ Defined(result.ti) # <<>> => LastValue(result.ti) = R(100)
       /\ result.ai = R(100)

\* the RSI of average gain g and average loss l
RsiFromAverages(g, l) ==
  IF RIsZero(l) THEN R(100) ELSE RSub(R(100), RDiv(R(100), RAdd(R(1), RDiv(g, l))))

\* C9: TechnicalIndicators.calculateRSI returns one entry per price; entry i is
\* NaN for i < period and, for i >= period, a number in [0, 100]: the RSI of the
\* smoothed average gain and loss of the changes ending at bar i (entry i - 1
\* of the averages, whose entry j smooths the changes up to bar j + 1).
C9_TiRsiWellFormed ==
  result.op = "RSI" =>
    /\ Len(result.ti) = Len(series)
    /\ \A i \in 0..(Len(series) - 1) :
         IF i < per THEN At(result.ti, i) = NaN
         ELSE /\ IsNum(At(result.ti, i))
              /\ RLe(R(0), At(result.ti, i)) /\ RLe(At(result.ti, i), R(100))
              /\ At(result.ti, i) =
                   RsiFromAverages(At(TI_calculateEMA(Gains(series), per), i - 1),
                                   At(TI_calculateEMA(Losses(series), per), i - 1))

\* ========================================================================
\* Properties of the App component (continued)
\* ========================================================================

\* C11: isLoading is true whenever a login attempt or a history fetch started
\* by App is still in flight.
C11_LoadingWhileInFlight == inflight # {} => isLoading

\* C12: once nothing awaits rendering and the effects have run, a connected
\* live socket has exactly the selected ticker subscribed (a 'subscribe' not
\* followed by an 'unsubscribe'); the last message for it was a 'subscribe'.
C12_SubscribedToSelectedTicker ==
  (pending = NoUpdates /\ ~EffectsPending)
    => \A s \in LiveSockets :
         sockets[s].connected => sockets[s].subscribed = {selectedTicker}

\* the ticker was changed and the socket opened for the new ticker has been
\* connected and re-subscribed by the ticker-change effect
C12_Witness ==
  /\ pending = NoUpdates /\ ~EffectsPending
  /\ selectedTicker = "MSFT"
  /\ Len(sockets) >= 2
  /\ socket \in LiveSockets
  /\ sockets[socket].connected
  /\ connectionStatus = "connected"
  /\ sockets[socket].subscribed = {"MSFT"}

\* the URLs of SERVER_URLS that pass the /health probe, by position
Passing(healthy) == {k \in 1..Len(SERVER_URLS) : SERVER_URLS[k] \in healthy}

\* the step is a failed login attempt: no server passed the probe, or the
\* login request was rejected or could not be sent
FailedLoginStep ==
  \E r \in inflight :
    \/ \E healthy \in SUBSET {SERVER_URLS[k] : k \in 1..Len(SERVER_URLS)} :
         LoginProbed(r, healthy) /\ Passing(healthy) = {}
    \/ \E resp \in LoginResponses \ {"ok"} : LoginResponse(r, resp)

LoginRequests(reqs) == {q \in reqs : q.kind = "login"}

\* C14: findWorkingServer returns the first URL of SERVER_URLS, in list order,
\* that passes the probe and sets currentServerUrl to it; when none passes it
\* returns null and currentServerUrl is not set.  handleLogin sends the login
\* request to the URL returned and none when the result is null.
C14_FirstWorkingServer ==
  [][\A r \in inflight :
       \A healthy \in SUBSET {SERVER_URLS[k] : k \in 1..Len(SERVER_URLS)} :
         LoginProbed(r, healthy) =>
           IF Passing(healthy) = {}
           THEN /\ pending' = pending
                /\ LoginRequests(inflight') = LoginRequests(inflight)
           ELSE LET first == CHOOSE k \in Passing(healthy) :
                               \A j \in Passing(healthy) : k <= j
                IN /\ Rendered(View, pending').currentServerUrl = SERVER_URLS[first]
                   /\ LoginRequests(inflight') \ LoginRequests(inflight) =
                        {[kind |-> "login", id |-> r.id, url |-> SERVER_URLS[first]]}]_vars

\* only the last URL of the list passed: the login request went to it and
\* currentServerUrl was set to it
C14_Witness ==
  /\ \E q \in inflight : q.kind = "login" /\ q.url = SERVER_URLS[3]
  /\ Rendered(View, pending).currentServerUrl = SERVER_URLS[3]
  /\ SERVER_URLS[3] # SERVER_URLS[1]

\* C15 as stated: in every reachable state the rendered isAuthenticated being
\* true implies that a token is stored.
C15_AuthenticatedImpliesToken == isAuthenticated => token # 0

\* C15: in every reachable state, the value last given to setIsAuthenticated
\* (the one the next render shows) being true implies that a token is stored.
C15_RequestedAuthImpliesToken == AuthAfter(pending) => token # 0

\* the login response stored the token and called setIsAuthenticated(true);
\* the render has not happened yet
C15_Witness ==
  /\ ~isAuthenticated
  /\ AuthAfter(pending)
  /\ token # 0
  /\ inflight = {}

\* the selection the next render will show
SelectionAfter(q) ==
  LET v == Rendered(View, q) IN <<v.selectedTicker, v.period, v.interval>>

\* the step belongs to a login: typing, submitting, the probe, the response
LoginStep ==
  \/ TypeCredentials
  \/ LoginSubmit
  \/ \E r \in inflight :
       \/ \E healthy \in SUBSET {SERVER_URLS[k] : k \in 1..Len(SERVER_URLS)} :
            LoginProbed(r, healthy)
       \/ \E resp \in LoginResponses : LoginResponse(r, resp)

\* C16: handleLogout removes the token, sets isAuthenticated to false, clears
\* the credentials and the error, sets connectionStatus to 'disconnected' and
\* disconnects the rendered socket; it leaves prices, stats, customHistory and
\* the selected ticker, period and interval as they were, and so does every
\* step of the next login.
C16_LogoutFrame ==
  [][/\ handleLogout =>
          /\ token' = 0
          /\ ~(AuthAfter(pending))'
          /\ credentials' = ""
          /\ error' = ""
          /\ Rendered(View, pending').connectionStatus = "disconnected"
          /\ socket # 0 => sockets'[socket].closed
     /\ (handleLogout \/ LoginStep) =>
          /\ prices' = prices
          /\ stats' = stats
          /\ customHistory' = customHistory
          /\ SelectionAfter(pending') = SelectionAfter(pending)]_vars

\* the user of the second session logged out again: prices, stats, the history
\* and the selection of the first session are still there
C16_Witness ==
  /\ logins = 1
  /\ ~isAuthenticated /\ pending = NoUpdates /\ ~EffectsPending
  /\ token = 0
  /\ Len(sockets) = 3 /\ LiveSockets = {}
  /\ credentials = ""
  /\ DOMAIN prices = Tickers
  /\ DOMAIN stats # {}
  /\ customHistory.req.ticker = "AAPL"
  /\ selectedTicker = "MSFT"

\* ========================================================================
\* Properties of NewsPanel and Recommendations
\* ========================================================================

\* the step is a failed fetch of panel c
PanelFailure(c) ==
  \/ PanelFetch(c) /\ token = 0
  \/ \E r \in panelInflight : \E resp \in Responses \ {"ok"} : \E data \in PanelPayloads :
       r.panel = c /\ PanelResponse(r, resp, data)

\* C17: when a fetch of NewsPanel or Recommendations fails, the list the panel
\* shows is unchanged, no error state is set, no request is started and the
\* panel's isLoading is false.
C17_PanelFailureOnlyLogged ==
  [][\A c \in Panels :
       PanelFailure(c) =>
         /\ list' = list
         /\ error' = error
         /\ panelInflight' \subseteq panelInflight
         /\ panelLoading'[c] = FALSE]_vars

\* a panel that had loaded a list failed its next fetch and still shows it
C17_Witness ==
  \E c \in Panels :
    /\ list[c] # 0
    /\ panelOutcome[c] = "failed"
    /\ ~panelLoading[c]
    /\ \A r \in panelInflight : r.panel # c

\* the signal line recomputed from the first k prices only
SignalFromPrefix(k) == TI_calculateMACD(Nums(SubSeq(series, 1, k))).signal[k]

\* C18: calculateMACD returns macd and signal arrays of the input's length;
\* macd[i] is a number exactly when i >= 25; signal[i] is a number exactly
\* when i >= 33; the numbers of signal are, in order, the 9-period EMA of the
\* numbers of macd, and signal[i] is the same when only prices[0..i] are given.
C18_MacdAndSignalAligned ==
  result.op = "MACD" =>
    LET macd == result.out.macd
        signal == result.out.signal
    IN /\ Len(macd) = Len(series)
       /\ Len(signal) = Len(series)
       /\ \A k \in 1..Len(series) :
            /\ IsNum(macd[k]) <=> k - 1 >= 25
            /\ IsNum(signal[k]) <=> k - 1 >= 33
            /\ signal[k] = SignalFromPrefix(k)
       /\ Len(Defined(macd)) >= MACD_SIGNAL =>
            Defined(signal) = AI_calculateEMA(Defined(macd), MACD_SIGNAL)

\* a series whose last bars move, so that the last signal value is a number
\* other than zero
C18_Witness ==
  /\ result.op = "MACD"
  /\ Len(series) >= 36
  /\ IsNum(result.out.signal[Len(series)])
  /\ ~RIsZero(result.out.signal[Len(series)])
  /\ result.out.signal[Len(series)] # result.out.macd[Len(series)]

\* the last p prices up to index k - 1, their mean and their population
\* variance as the mean of the squares less the square of the mean
LastPrices(k, p) == Nums(SubSeq(series, k - p + 1, k))
MeanOf(xs) == RDiv(SumTo(xs, Len(xs)), R(Len(xs)))
PopulationVariance(xs) ==
  RSub(MeanOf([j \in 1..Len(xs) |-> RMul(xs[j], xs[j])]), RMul(MeanOf(xs), MeanOf(xs)))

\* C19: calculateBollingerBands returns upper, lower and middle of the input's
\* length; all three are NaN for i < period - 1 and defined from there on;
\* middle[i] is the mean of the last period prices; upper lies stdDev
\* population standard deviations above middle and lower the same distance
\* below, so lower <= middle <= upper.
C19_BandsAroundMean ==
  result.op = "BB" =>
    LET upper == result.out.upper
        lower == result.out.lower
        middle == result.out.middle
    IN /\ Len(upper) = Len(series)
       /\ Len(lower) = Len(series)
       /\ Len(middle) = Len(series)
       /\ \A k \in 1..Len(series) :
            IF k - 1 < per - 1
            THEN ~IsSurd(upper[k]) /\ ~IsSurd(lower[k]) /\ ~IsNum(middle[k])
            ELSE /\ IsSurd(upper[k]) /\ IsSurd(lower[k]) /\ IsNum(middle[k])
                 /\ middle[k] = MeanOf(LastPrices(k, per))
                 /\ upper[k] = Surd(middle[k], R(result.stdDev),
                                    PopulationVariance(LastPrices(k, per)))
                 /\ lower[k] = Surd(middle[k], R(0 - result.stdDev),
                                    PopulationVariance(LastPrices(k, per)))
                 /\ RLe(R(0), upper[k][2]) /\ RLe(lower[k][2], R(0))
                 /\ RLe(R(0), upper[k][3])

\* bands of a positive width over a window of several differing prices
C19_Witness ==
  /\ result.op = "BB"
  /\ per > 1
  /\ result.stdDev > 0
  /\ Len(series) > per
  /\ IsSurd(result.out.upper[Len(series)])
  /\ ~RIsZero(result.out.upper[Len(series)][3])
  /\ ~IsSurd(result.out.upper[1])

\* the mean of the p prices ending at index k - 1, NaN while fewer than p
\* prices are there
MeanOfLast(k, p) == IF k - 1 < p - 1 THEN NaN ELSE MeanOf(LastPrices(k, p))

\* C20: calculateSMA returns an array of the input's length that is NaN for
\* i < period - 1 and the mean of prices[i-period+1..i] from there on;
\* calculateIndicators produces one row per input row in the input's order,
\* each with that row's time and price and the moving averages at its index.
C20_SmaAndRowsAligned ==
  /\ result.op = "SMA" =>
       /\ Len(result.sma) = Len(series)
       /\ \A k \in 1..Len(series) : result.sma[k] = MeanOfLast(k, per)
  /\ result.op = "IND" =>
       /\ Len(result.rows) = Len(series)
       /\ \A k \in 1..Len(series) :
            /\ result.rows[k].time = k
            /\ result.rows[k].price = series[k]
            /\ result.rows[k].sma20 = MeanOfLast(k, SMA_SHORT)
            /\ result.rows[k].sma50 = MeanOfLast(k, SMA_LONG)

\* rows of a series whose last bars differ, the last row with a 20-bar average
C20_Witness ==
  /\ result.op = "IND"
  /\ Len(series) > SMA_SHORT
  /\ series[Len(series)] # series[Len(series) - 1]
  /\ IsNum(result.rows[Len(series)].sma20)
  /\ result.rows[Len(series)].sma20 # R(series[Len(series)])
  /\ ~IsNum(result.rows[1].sma20)

\* ========================================================================
\* Properties of RiskAnalysis
\* ========================================================================

\* calculateRiskMetrics stored a RiskMetrics: there is at least one return
MetricsProduced == result.op = "RISK" /\ Len(series) >= 2

\* C21 as stated: in every RiskMetrics produced, var99 >= var95, and both
\* indices into the sorted returns are within 0..n-1.
C21_VarMonotoneInConfidence ==
  MetricsProduced =>
    /\ RLe(result.metrics.var95, result.metrics.var99)
    /\ RA_varIndex(Len(series) - 1, VAR_95) \in 0..(Len(series) - 2)
    /\ RA_varIndex(Len(series) - 1, VAR_99) \in 0..(Len(series) - 2)

\* the relative declines from a close to the same or a later close, and the
\* largest of them
Declines == {RDiv(R(series[j] - series[i]), R(series[j])) :
               <<j, i>> \in {p \in (1..Len(series)) \X (1..Len(series)) : p[1] <= p[2]}}
LargestDecline == CHOOSE m \in Declines : \A d \in Declines : RLe(d, m)

NonDecreasing == \A j \in 1..(Len(series) - 1) : series[j] <= series[j + 1]

\* C22: for positive closes calculateMaxDrawdown returns 100 times the
\* largest relative decline from a running peak to a later close; the result
\* is at least 0 and below 100, and is 0 exactly when the series is
\* non-decreasing or has fewer than two rows.
C22_MaxDrawdownIsLargestDecline ==
  (result.op = "DD" /\ \A j \in 1..Len(series) : series[j] > 0) =>
    /\ Len(series) >= 2 => result.maxDrawdown = RMul(LargestDecline, R(100))
    /\ RLe(R(0), result.maxDrawdown)
    /\ RLt(result.maxDrawdown, R(100))
    /\ RIsZero(result.maxDrawdown) <=> (NonDecreasing \/ Len(series) < 2)

\* a series that recovers after its deepest decline and ends off its peak
C22_Witness ==
  /\ result.op = "DD"
  /\ Len(series) >= 4
  /\ ~RIsZero(result.maxDrawdown)
  /\ \E i \in 2..(Len(series) - 1) :
       /\ series[i] < series[1]
       /\ series[i] < series[Len(series)]
       /\ series[i + 1] > series[1]

\* C23 as stated: in every RiskMetrics produced, beta is 0.8 exactly when
\* riskLevel is low, 1.0 exactly when medium, 1.3 exactly when high.
C23_BetaMatchesRiskLevel ==
  MetricsProduced =>
    /\ result.metrics.beta = BETA_LOW <=> result.metrics.riskLevel = "low"
    /\ result.metrics.beta = BETA_MARKET <=> result.metrics.riskLevel = "medium"
    /\ result.metrics.beta = BETA_HIGH <=> result.metrics.riskLevel = "high"

\* ========================================================================
\* Properties of AIInsights
\* ========================================================================

RECURSIVE CountIn(_, _, _)
CountIn(insights, titles, k) ==
  IF k = 0 THEN 0
  ELSE CountIn(insights, titles, k - 1) + (IF insights[k].title \in titles THEN 1 ELSE 0)

BullishTitles ==
  {"Oversold Opportunity", "Positive Momentum", "Strong Upward Momentum", "Uptrend",
   "Potential Breakout", "AI Prediction: Upward Trend"}
BearishTitles ==
  {"Overbought Condition", "Negative Momentum", "Downtrend", "AI Prediction: Downward Trend"}
UncountedTitles ==
  {"High Volatility Alert", "Low Volatility", "High Volume", "Near Resistance", "Near Support"}

\* C24: after generateInsights the sentiment is bullish exactly when
\* bullishSignals > bearishSignals, bearish exactly when bearishSignals >
\* bullishSignals and neutral on a tie; the RSI, momentum and prediction
\* rules and each detected pattern add at most one insight and one signal;
\* the counters count exactly the insights of the signalling rules, so the
\* warning and neutral insights of volatility, High Volume, Near Resistance
\* and Near Support change neither.
C24_SentimentFromSignalCounts ==
  result.op = "INSIGHTS" =>
    LET out == result.out
        ins == out.insights
    IN /\ out.sentiment = "bullish" <=> out.bullishSignals > out.bearishSignals
       /\ out.sentiment = "bearish" <=> out.bearishSignals > out.bullishSignals
       /\ out.sentiment = "neutral" <=> out.bullishSignals = out.bearishSignals
       /\ \A rule \in {"rsi", "momentum", "prediction", "volatility"} :
            Cardinality({k \in 1..Len(ins) : ins[k].rule = rule}) <= 1
       /\ \A k1, k2 \in 1..Len(ins) : ins[k1].title = ins[k2].title => k1 = k2
       /\ out.bullishSignals = CountIn(ins, BullishTitles, Len(ins))
       /\ out.bearishSignals = CountIn(ins, BearishTitles, Len(ins))
       /\ \A k \in 1..Len(ins) :
            /\ ins[k].title \in BullishTitles \cup BearishTitles \cup UncountedTitles
            /\ ins[k].title \in UncountedTitles => ins[k].type \in {"warning", "neutral"}

\* a tie of one bullish and one bearish signal next to uncounted warnings
C24_Witness ==
  /\ result.op = "INSIGHTS"
  /\ result.out.sentiment = "neutral"
  /\ result.out.bullishSignals >= 1
  /\ result.out.bearishSignals >= 1
  /\ \E k \in 1..Len(result.out.insights) : result.out.insights[k].title = "High Volume"
  /\ \E k \in 1..Len(result.out.insights) :
       result.out.insights[k].title = "High Volatility Alert"

\* ========================================================================
\* Properties of PredictionChart and the Chatbot
\* ========================================================================

\* C25: at most one chat request is in flight; after the greeting the
\* messages alternate user, bot, user, bot, ending with a user message exactly
\* while a request is in flight; an accepted send appends one user message, a
\* settled request one bot message, and no step removes or reorders messages.
C25_ChatAlternates ==
  /\ [](/\ Cardinality(chatInflight) <= 1
        /\ chatLoading <=> chatInflight # {}
        /\ \A k \in 1..Len(messages) :
             messages[k].type = IF k % 2 = 1 THEN "bot" ELSE "user"
        /\ chatInflight # {} <=> Len(messages) % 2 = 0)
  /\ [][/\ Len(messages') >= Len(messages)
        /\ SubSeq(messages', 1, Len(messages)) = messages
        /\ \A r \in chatInflight : \A resp \in Responses :
             ChatResponse(r, resp) =>
               /\ Len(messages') = Len(messages) + 1
               /\ messages'[Len(messages')].type = "bot"
        /\ (sendMessage /\ token # 0) =>
               /\ Len(messages') = Len(messages) + 1
               /\ messages'[Len(messages')] = [type |-> "user", content |-> inputMessage]]_vars

\* a failed exchange and a successful one behind the greeting, a third sent
C25_Witness ==
  /\ Len(messages) = 6
  /\ chatInflight # {}
  /\ \E k \in 1..Len(messages) : messages[k].content = ErrorText
  /\ \E k \in 1..Len(messages) : messages[k].content = "response"

\* the rows of chartData that are not prediction points
HistoricalRows(chart) == SelectSeq(chart, LAMBDA row : "isPrediction" \notin DOMAIN row)

\* C26: chartData is the last min(30, n) rows of historicalData in their
\* order, followed, only when predictions has both a predictions and a dates
\* field, by one point per predicted price in order with price null and that
\* predicted value; chartData never has more than 30 historical rows.
C26_ChartDataShape ==
  (result.op = "CHART" /\ Len(series) > 0) =>
    LET chart == result.chartData
        n == Len(series)
        h == Min(30, n)
        predicted == IF result.predictions.hasPredictions /\ result.predictions.hasDates
                     THEN result.predictions.predictions ELSE <<>>
    IN /\ Len(chart) = h + Len(predicted)
       /\ \A k \in 1..h : chart[k] = [time |-> n - h + k, close |-> series[n - h + k]]
       /\ \A k \in 1..Len(predicted) :
            /\ chart[h + k].price = Null
            /\ chart[h + k].predicted = predicted[k]
            /\ chart[h + k].isPrediction
       /\ Len(HistoricalRows(chart)) <= 30

\* more than 30 rows of history and two differing predictions
C26_Witness ==
  /\ result.op = "CHART"
  /\ Len(series) > 30
  /\ Len(result.chartData) = 32
  /\ result.chartData[1].time = Len(series) - 29
  /\ result.chartData[31].predicted # result.chartData[32].predicted

====
